---- MODULE Spec2Model ----
(***************************************************************************)
(* A model of components of the elastix extension code:                    *)
(*   - itk::ImageFullSampler (Common/ImageSamplers/itkImageFullSampler.hxx)*)
(*     the single-threaded and the multi-threaded sample collection;       *)
(*   - CustomImageMetric (Common/CostFunctions/CustomImageMetric.h/.hxx);  *)
(*   - elastix::AdvancedMeanSquaresMetric::BeforeAll (.hxx and .cxx);      *)
(*   - elastix::AdvancedMattesMutualInformationMetric, its                 *)
(*     BeforeEachResolution and AfterEachIteration;                        *)
(*   - elastix::MainBase::GetComponentDatabase and the destructor of       *)
(*     MainBase with itk::OpenCLContext (Core/Kernel/elxMainBase.cxx);     *)
(*   - itk::ImageRandomSampler and itk::TransformixFilter as their         *)
(*     GoogleTests use them.                                               *)
(* Each component has its own specification (SpecSampler, SpecMetric,      *)
(* SpecBeforeAll, SpecMattes, SpecDatabase, SpecContext, SpecRandom,       *)
(* SpecTransformix); the variables of the other components stay unchanged. *)
(***************************************************************************)
EXTENDS Integers, Sequences, FiniteSets, TLC

\* ------------------------------------------------------------------ bounds
\* Largest width and height of a cropped input image region, and the largest
\* number of pixels of a region (2-D images; x is the fast dimension).
MaxWidth == 2
MaxHeight == 3
MaxPixels == 6
\* Largest number of work units requested from the sampler, and the largest
\* value of MultiThreaderBase::GetGlobalMaximumNumberOfThreads().
MaxWorkUnits == 3
MaxThreads == 3

Min(a, b) == IF a < b THEN a ELSE b

\* ceil(a / b) for positive b, as itk::Math::Ceil of the real quotient.
CeilDiv(a, b) == (a + b - 1) \div b

\* =========================================================================
\*                           itk::ImageFullSampler
\* =========================================================================

VARIABLES
  inputImage,        \* the input image: pixel value of every index
  mask,              \* [present, inside]: the mask pointer and the world points inside
  region,            \* croppedInputImageRegion: [index |-> <<x,y>>, size |-> <<w,h>>]
  numberOfWorkUnits, \* ProcessObject::GetNumberOfWorkUnits()
  globalMaxThreads,  \* MultiThreaderBase::GetGlobalMaximumNumberOfThreads()
  useMultiThread,    \* Superclass::m_UseMultiThread
  sampleContainer,   \* the output sample container
  samples,           \* the local sample vector of GenerateData (sampleVector)
  workUnits,         \* userData.WorkUnits
  pcMain,            \* position of GenerateData: "idle", "executing", "done"
  pcCallback,        \* position of every ThreaderCallback: "ready", "iterating", "returned"
  iterPos,           \* per callback: number of pixels the region iterator has passed
  samplesPtr,        \* per callback: the local pointer `samples` (offset in the vector)
  returnOrder        \* history: the callback ids in the order in which they returned

samplerVars == <<inputImage, mask, region, numberOfWorkUnits, globalMaxThreads,
                 useMultiThread, sampleContainer, samples, workUnits, pcMain,
                 pcCallback, iterPos, samplesPtr, returnOrder>>

\* ---- state of CustomImageMetric ----
VARIABLES
  numberOfImages,  \* this->GetNumberOfImages()
  m_ImageWeights,  \* CustomImageMetric::m_ImageWeights
  value,           \* the caller's value output of GetValueAndDerivative
  derivative,      \* the caller's derivative output of GetValueAndDerivative
  evaluated,       \* the images ComputeValueAndDerivativeForImage ran for in the last call
  lastCall         \* history: the last operation, its inputs, its outcome, and what
                   \* the properties need of the state before it

metricVars == <<numberOfImages, m_ImageWeights, value, derivative, evaluated, lastCall>>

\* ---- state of elastix::AdvancedMeanSquaresMetric ----
VARIABLES
  configuration,             \* the parameter file: FixedWeightMap and MovingWeightMap
  readableFiles,             \* the files an ImageFileReader can read
  m_FixedWeightMapFileName,
  m_MovingWeightMapFileName,
  fixedWeightImage,          \* what m_Metric->SetFixedWeightImage received, or NoImage
  movingWeightImage,         \* what m_Metric->SetMovingWeightImage received, or NoImage
  filesRead,                 \* history: the file names a reader was updated for
  readParameterFile,         \* history: the last ReadParameterFile call
  beforeAll                  \* history: the last BeforeAll call

elxVars == <<configuration, readableFiles, m_FixedWeightMapFileName,
             m_MovingWeightMapFileName, fixedWeightImage, movingWeightImage,
             filesRead, readParameterFile, beforeAll>>

\* ---- state of elastix::AdvancedMattesMutualInformationMetric ----
VARIABLES
  m_UseFiniteDifferenceDerivative,
  m_CurrentIteration,
  m_Param_c,                       \* in tenths
  m_Param_gamma,                   \* in thousandths
  m_FiniteDifferencePerturbation,  \* a perturbation gain, see Compute_c
  m_WeightMatrices,                \* the stored list of weight matrices
  resolution,                      \* "none", "running", or "aborted" by an exception
  iterationsDone,                  \* history: AfterEachIteration calls in this resolution
  lastResolution                   \* history: the last BeforeEachResolution call

mattesVars == <<m_UseFiniteDifferenceDerivative, m_CurrentIteration, m_Param_c,
                m_Param_gamma, m_FiniteDifferencePerturbation, m_WeightMatrices,
                resolution, iterationsDone, lastResolution>>

\* ---- state of elastix::MainBase::GetComponentDatabase ----
VARIABLES
  staticGuard,              \* the guard of the function-local static: "uninitialized",
                            \* "initializing", "initialized"
  staticComponentDatabase,  \* the static: the id of a database, or NoDatabase
  databases,                \* the ComponentDatabase objects created so far, by id:
                            \* "empty", "loading", "loaded", "failed"
  loadComponentsCalls,      \* history: number of LoadComponents calls
  errorsLogged,             \* history: number of log::error calls
  pcCaller,                 \* position of every thread in GetComponentDatabase
  componentDatabase,        \* per thread: the local componentDatabase of the initializer
  callPath,                 \* history, per thread: how its call passed the static:
                            \* "initializer", "waited" or "direct"
  returned                  \* history, per thread: what each of its calls returned

databaseVars == <<staticGuard, staticComponentDatabase, databases, loadComponentsCalls,
                  errorsLogged, pcCaller, componentDatabase, callPath, returned>>

\* ---- state of itk::OpenCLContext and of the elastix::MainBase destructor ----
VARIABLES
  contextInstance,   \* the OpenCLContext singleton: the id of the object, or NoContext
  contextsMade,      \* number of OpenCLContext objects constructed so far
  contextCreated,    \* what IsCreated() of the singleton returns
  pointers,          \* history: the pointers New() and GetInstance() returned, in order
  createCalls,       \* history: number of Create calls
  createdOnce,       \* history: some Create call has succeeded
  lastContextCall    \* history: the last call and what it found and did

contextVars == <<contextInstance, contextsMade, contextCreated, pointers, createCalls,
                 createdOnce, lastContextCall>>

\* ---- state of the itk::ImageRandomSampler runs of itkImageRandomSamplerGTest ----
VARIABLES
  randomImage,         \* the input image of both runs: pixel value of every pixel number
  seeds,               \* per run: the argument of SetSeed
  multiThreaded,       \* per run: the argument of SetUseMultiThread
  run,                 \* the run going on: 1 or 2
  pcRandom,            \* position of the run: "none", "constructed", "numbers",
                       \* "sampling", "done"
  generator,           \* state of the sampler's random generator
  randomNumberList,    \* the random numbers drawn for the run
  randomSamples,       \* the sample container of the run; NoSample where nothing is stored
  storedPositions,     \* history: the positions of the container in storing order
  outputs              \* history: per finished run, its output and its storing order

randomVars == <<randomImage, seeds, multiThreaded, run, pcRandom, generator,
                randomNumberList, randomSamples, storedPositions, outputs>>

\* ---- state of the itk::TransformixFilter tests of itkTransformixFilterGTest ----
VARIABLES
  pcTest,               \* position of the test: "none" before it begins, "ready"
  testImage,            \* the input image of the test: [size, pixels]
  itkTransform,         \* the ITK transform of the test
  initialTransformParametersFileName,
  howToCombineTransforms,
  transformixOutput,    \* output of the TransformixFilter, or NotUpdated
  resampleOutput        \* output of a ResampleImageFilter per transform it was given
                        \* ("transform", "transformAndTranslation",
                        \* "translationAndTransform"), or NotUpdated

transformixVars == <<pcTest, testImage, itkTransform,
                     initialTransformParametersFileName, howToCombineTransforms,
                     transformixOutput, resampleOutput>>

vars == <<samplerVars, metricVars, elxVars, mattesVars, databaseVars,
          contextVars, randomVars, transformixVars>>

\* Every action changes the variables of its own component only.
SamplerOnly == UNCHANGED <<metricVars, elxVars, mattesVars, databaseVars,
                           contextVars, randomVars, transformixVars>>
MetricOnly == UNCHANGED <<samplerVars, elxVars, mattesVars, databaseVars,
                          contextVars, randomVars, transformixVars>>
ElxOnly == UNCHANGED <<samplerVars, metricVars, mattesVars, databaseVars,
                       contextVars, randomVars, transformixVars>>
MattesOnly == UNCHANGED <<samplerVars, metricVars, elxVars, databaseVars,
                          contextVars, randomVars, transformixVars>>
DatabaseOnly == UNCHANGED <<samplerVars, metricVars, elxVars, mattesVars,
                            contextVars, randomVars, transformixVars>>
ContextOnly == UNCHANGED <<samplerVars, metricVars, elxVars, mattesVars,
                           databaseVars, randomVars, transformixVars>>
RandomOnly == UNCHANGED <<samplerVars, metricVars, elxVars, mattesVars,
                          databaseVars, contextVars, transformixVars>>
TransformixOnly == UNCHANGED <<samplerVars, metricVars, elxVars, mattesVars,
                               databaseVars, contextVars, randomVars>>

\* The index lattice every region lies in.
Lattice == (0 .. MaxWidth) \X (0 .. MaxHeight)

\* Two input images: one with varying, repeating pixel values, one constant.
Images == { [p \in Lattice |-> ((p[1] + 2 * p[2]) % 3) + 1], [p \in Lattice |-> 5] }

\* Image geometry: physical point = origin + spacing * index (identity direction).
Origin == <<1, 1>>
Spacing == <<2, 3>>
TransformIndexToPhysicalPoint(index) ==
  <<Origin[1] + Spacing[1] * index[1], Origin[2] + Spacing[2] * index[2]>>

\* A value-initialised ImageSample, as std::vector::resize inserts.
DefaultSample == [point |-> <<0, 0>>, value |-> 0]
\* A sample left in the output container by an earlier Update.
StaleSample == [point |-> <<-1, -1>>, value |-> 9]

GetNumberOfPixels(r) == r.size[1] * r.size[2]

\* The k-th index (k = 0, 1, ...) an ImageRegionConstIteratorWithIndex visits:
\* the fast dimension x runs first.
IteratorIndex(r, k) ==
  <<r.index[1] + (k % r.size[1]), r.index[2] + (k \div r.size[1])>>

RegionIndices(r) == { IteratorIndex(r, k) : k \in 0 .. (GetNumberOfPixels(r) - 1) }

\* mask->IsInsideInObjectSpace(worldToObjectTransform->TransformPoint(point))
IsInside(m, point) == point \in m.inside

\* ---- ImageSamplerBase::SplitRegion (itk::ImageRegionSplitterSlowDimension) ----
\* The axis that is split: the slowest dimension whose size is not 1; 0 if none.
SplitAxis(r) == IF r.size[2] # 1 THEN 2 ELSE IF r.size[1] # 1 THEN 1 ELSE 0

ValuesPerPiece(r, requested) == CeilDiv(r.size[SplitAxis(r)], requested)

GetNumberOfSplits(r, requested) ==
  IF SplitAxis(r) = 0 THEN 1
  ELSE CeilDiv(r.size[SplitAxis(r)], ValuesPerPiece(r, requested))

GetSplit(i, numberOfPieces, r) ==
  IF SplitAxis(r) = 0 THEN r
  ELSE LET axis == SplitAxis(r)
           valuesPerPiece == CeilDiv(r.size[axis], numberOfPieces)
           maxPieceUsed == CeilDiv(r.size[axis], valuesPerPiece) - 1
       IN  IF i < maxPieceUsed
             THEN [index |-> [r.index EXCEPT ![axis] = @ + i * valuesPerPiece],
                   size |-> [r.size EXCEPT ![axis] = valuesPerPiece]]
             ELSE [index |-> [r.index EXCEPT ![axis] = @ + i * valuesPerPiece],
                   size |-> [r.size EXCEPT ![axis] = @ - i * valuesPerPiece]]

SplitRegion(r, requested) ==
  LET numberOfSubregions == GetNumberOfSplits(r, requested)
  IN  [i \in 1 .. numberOfSubregions |-> GetSplit(i - 1, numberOfSubregions, r)]

\* ---- ImageFullSampler::GenerateWorkUnits ----
\* Mutation: every slice starts at the beginning of the vector.
PixelsBeforeMutant(subregions, i) == 0

RECURSIVE PixelsBefore(_, _)
PixelsBefore(subregions, i) ==
  IF i <= 1 THEN 0
  ELSE PixelsBefore(subregions, i - 1) + GetNumberOfPixels(subregions[i - 1])

\* Mutation: the slice of every work unit but the first starts one element early.
GenerateWorkUnitsOverlapMutant(n, r, maxThreads) ==
  LET subregions == SplitRegion(r, Min(n, maxThreads))
  IN  [i \in 1 .. Len(subregions) |->
         [imageRegion |-> subregions[i],
          Samples |-> IF i = 1 THEN 0 ELSE PixelsBefore(subregions, i) - 1,
          NumberOfSamples |-> 0]]

\* Mutation: one element of the vector is left out between two slices.
GenerateWorkUnitsGapMutant(n, r, maxThreads) ==
  LET subregions == SplitRegion(r, Min(n, maxThreads))
  IN  [i \in 1 .. Len(subregions) |->
         [imageRegion |-> subregions[i],
          Samples |-> PixelsBefore(subregions, i) + (i - 1),
          NumberOfSamples |-> 0]]

\* One work unit per subregion; Samples is the offset of its slice in the vector.
GenerateWorkUnits(n, r, maxThreads) ==
  LET subregions == SplitRegion(r, Min(n, maxThreads))
  IN  [i \in 1 .. Len(subregions) |->
         [imageRegion |-> subregions[i],
          Samples |-> PixelsBefore(subregions, i),
          NumberOfSamples |-> 0]]

\* std::vector::resize on a sequence: cut, or append value-initialised samples.
Resize(v, n) ==
  [k \in 1 .. n |-> IF k <= Len(v) THEN v[k] ELSE DefaultSample]

\* ---- ImageFullSampler::GenerateDataForWorkUnit ----
\* The sample of one pixel.
MakeSample(image, index) ==
  [point |-> TransformIndexToPhysicalPoint(index), value |-> image[index]]

\* Whether the loop body stores a sample for this index.
StoresSample(m, index) ==
  IF m.present THEN IsInside(m, TransformIndexToPhysicalPoint(index)) ELSE TRUE

\* Mutation: the sample is stored at the iterator position, not at the local pointer.
LoopBodyMutant(image, m, wu, k, ptr, buf) ==
  LET index == IteratorIndex(wu.imageRegion, k)
  IN  IF StoresSample(m, index)
        THEN [buf |-> [buf EXCEPT ![wu.Samples + k + 1] = MakeSample(image, index)],
              ptr |-> ptr + 1]
        ELSE [buf |-> buf, ptr |-> ptr]

\* One iteration of the loop, at iterator position k with the local pointer ptr:
\* the vector and the local pointer afterwards.
LoopBody(image, m, wu, k, ptr, buf) ==
  LET index == IteratorIndex(wu.imageRegion, k)
  IN  IF StoresSample(m, index)
        THEN [buf |-> [buf EXCEPT ![ptr + 1] = MakeSample(image, index)], ptr |-> ptr + 1]
        ELSE [buf |-> buf, ptr |-> ptr]

\* Mutation: NumberOfSamples is never stored.
LoopEndMutant(m, wu, ptr) == wu

\* After the loop: with a mask, NumberOfSamples = samples - workUnit.Samples.
LoopEnd(m, wu, ptr) ==
  IF m.present THEN [wu EXCEPT !.NumberOfSamples = ptr - wu.Samples] ELSE wu

\* The whole call, run sequentially from iterator position k.
RECURSIVE GenerateDataForWorkUnit(_, _, _, _, _, _)
GenerateDataForWorkUnit(image, m, wu, k, ptr, buf) ==
  IF k >= GetNumberOfPixels(wu.imageRegion)
    THEN [buf |-> buf, workUnit |-> LoopEnd(m, wu, ptr)]
    ELSE LET s == LoopBody(image, m, wu, k, ptr, buf)
         IN  GenerateDataForWorkUnit(image, m, wu, k + 1, s.ptr, s.buf)

\* ---- ImageFullSampler::SingleThreadedGenerateData ----
SingleThreadedGenerateData(image, m, r, vec) ==
  LET resized == Resize(vec, GetNumberOfPixels(r))
      workUnit == [imageRegion |-> r, Samples |-> 0, NumberOfSamples |-> 0]
      done == GenerateDataForWorkUnit(image, m, workUnit, 0, workUnit.Samples, resized)
  IN  IF m.present
        THEN Resize(done.buf, done.workUnit.NumberOfSamples)
        ELSE done.buf

\* ---- ImageFullSampler::MultiThreadedGenerateData: the merge after execution ----
\* std::copy_n(src, n, dst) inside one vector, element by element, front first.
RECURSIVE CopyN(_, _, _, _)
CopyN(buf, src, n, dst) ==
  IF n = 0 THEN buf
  ELSE CopyN([buf EXCEPT ![dst + 1] = buf[src + 1]], src + 1, n - 1, dst + 1)

\* The loop over the work units 1 .. size-1 (C++ indices), from unit i (1-based).
RECURSIVE MergeFrom(_, _, _, _)
MergeFrom(units, i, sampleData, buf) ==
  IF i > Len(units) THEN [buf |-> buf, sampleData |-> sampleData]
  ELSE MergeFrom(units, i + 1, sampleData + units[i].NumberOfSamples,
                 CopyN(buf, units[i].Samples, units[i].NumberOfSamples, sampleData))

\* Mutation: the merge forgets the samples of the first work unit.
MergeStartMutant(units) == 0

\* sampleData = samples.data() + workUnits.front().NumberOfSamples
MergeStart(units) == units[1].NumberOfSamples

MergeWorkUnits(m, units, buf) ==
  IF m.present /\ Len(units) > 0
    THEN LET merged == MergeFrom(units, 2, MergeStart(units), buf)
         IN  Resize(merged.buf, merged.sampleData)
    ELSE buf

\* ---- initial states: the inputs of one GenerateData call ----
Regions ==
  { [index |-> <<0, iy>>, size |-> <<w, h>>] :
      iy \in {0, 1}, w \in 1 .. MaxWidth, h \in 1 .. MaxHeight }

Masks(r) ==
  { [present |-> FALSE, inside |-> {}] } \cup
  { [present |-> TRUE, inside |-> s] :
      s \in SUBSET { TransformIndexToPhysicalPoint(p) : p \in RegionIndices(r) } }

CallbackIds == 0 .. (MaxWorkUnits + 1)

InitSampler ==
  /\ inputImage \in Images
  /\ region \in { r \in Regions : GetNumberOfPixels(r) <= MaxPixels }
  /\ mask \in Masks(region)
  /\ numberOfWorkUnits \in 1 .. MaxWorkUnits
  /\ globalMaxThreads \in 1 .. MaxThreads
  /\ useMultiThread \in BOOLEAN
  /\ sampleContainer \in { <<>>, <<StaleSample>> }
  /\ samples = <<>>
  /\ workUnits = <<>>
  /\ pcMain = "idle"
  /\ pcCallback = [id \in CallbackIds |-> "none"]
  /\ iterPos = [id \in CallbackIds |-> 0]
  /\ samplesPtr = [id \in CallbackIds |-> 0]
  /\ returnOrder = <<>>

IdleSampler ==
  /\ inputImage = [p \in Lattice |-> 5]
  /\ region = [index |-> <<0, 0>>, size |-> <<1, 1>>]
  /\ mask = [present |-> FALSE, inside |-> {}]
  /\ numberOfWorkUnits = 1
  /\ globalMaxThreads = 1
  /\ useMultiThread = FALSE
  /\ sampleContainer = <<>>
  /\ samples = <<>>
  /\ workUnits = <<>>
  /\ pcMain = "idle"
  /\ pcCallback = [id \in CallbackIds |-> "none"]
  /\ iterPos = [id \in CallbackIds |-> 0]
  /\ samplesPtr = [id \in CallbackIds |-> 0]
  /\ returnOrder = <<>>

\* sampleContainer.swap(sampleVector); sampleVector.clear(): the vector GenerateData
\* works on is empty, whatever the output container held.
TakeAndClear(container) == SubSeq(container, 1, 0)

\* ---- ImageFullSampler::GenerateData, single-threaded branch ----
\* The whole call runs on the calling thread.
GenerateDataSingleThreaded ==
  /\ pcMain = "idle"
  /\ ~useMultiThread
  /\ sampleContainer' =
       SingleThreadedGenerateData(inputImage, mask, region, TakeAndClear(sampleContainer))
  /\ pcMain' = "done"
  /\ UNCHANGED <<inputImage, mask, region, numberOfWorkUnits, globalMaxThreads,
                 useMultiThread, samples, workUnits, pcCallback, iterPos, samplesPtr, returnOrder>>
  /\ SamplerOnly

\* ---- GenerateData, multi-threaded branch, up to SingleMethodExecute ----
\* The vector is resized, the work units are made, and the threader starts one
\* callback per work unit of the process object (WorkUnitID 0 .. n-1).
GenerateDataMultiThreadedBegin ==
  /\ pcMain = "idle"
  /\ useMultiThread
  /\ sampleContainer' = <<>>
  /\ samples' = Resize(TakeAndClear(sampleContainer), GetNumberOfPixels(region))
  /\ workUnits' = GenerateWorkUnits(numberOfWorkUnits, region, globalMaxThreads)
  /\ pcCallback' = [id \in CallbackIds |->
                      IF id < numberOfWorkUnits THEN "ready" ELSE "none"]
  /\ pcMain' = "executing"
  /\ UNCHANGED <<inputImage, mask, region, numberOfWorkUnits, globalMaxThreads,
                 useMultiThread, iterPos, samplesPtr, returnOrder>>
  /\ SamplerOnly

\* ---- ImageFullSampler::ThreaderCallback ----
\* A callback whose id has no work unit returns at once.
ThreaderCallbackNoWorkUnit(id) ==
  /\ pcMain = "executing"
  /\ pcCallback[id] = "ready"
  /\ id >= Len(workUnits)
  /\ pcCallback' = [pcCallback EXCEPT ![id] = "returned"]
  /\ returnOrder' = Append(returnOrder, id)
  /\ UNCHANGED <<inputImage, mask, region, numberOfWorkUnits, globalMaxThreads,
                 useMultiThread, sampleContainer, samples, workUnits, pcMain,
                 iterPos, samplesPtr>>
  /\ SamplerOnly

\* Entering GenerateDataForWorkUnit: samples = workUnit.Samples, iterator at begin.
ThreaderCallbackEnter(id) ==
  /\ pcMain = "executing"
  /\ pcCallback[id] = "ready"
  /\ id < Len(workUnits)
  /\ pcCallback' = [pcCallback EXCEPT ![id] = "iterating"]
  /\ iterPos' = [iterPos EXCEPT ![id] = 0]
  /\ samplesPtr' = [samplesPtr EXCEPT ![id] = workUnits[id + 1].Samples]
  /\ UNCHANGED <<inputImage, mask, region, numberOfWorkUnits, globalMaxThreads,
                 useMultiThread, sampleContainer, samples, workUnits, pcMain, returnOrder>>
  /\ SamplerOnly

\* One iteration of the loop of GenerateDataForWorkUnit in callback id.
ThreaderCallbackIterate(id) ==
  /\ pcMain = "executing"
  /\ pcCallback[id] = "iterating"
  /\ iterPos[id] < GetNumberOfPixels(workUnits[id + 1].imageRegion)
  /\ LET s == LoopBody(inputImage, mask, workUnits[id + 1], iterPos[id],
                       samplesPtr[id], samples)
     IN  /\ samples' = s.buf
         /\ samplesPtr' = [samplesPtr EXCEPT ![id] = s.ptr]
  /\ iterPos' = [iterPos EXCEPT ![id] = @ + 1]
  /\ UNCHANGED <<inputImage, mask, region, numberOfWorkUnits, globalMaxThreads,
                 useMultiThread, sampleContainer, workUnits, pcMain, pcCallback,
                 returnOrder>>
  /\ SamplerOnly

\* The iterator is at its end: NumberOfSamples is stored (with a mask), return.
ThreaderCallbackReturn(id) ==
  /\ pcMain = "executing"
  /\ pcCallback[id] = "iterating"
  /\ iterPos[id] >= GetNumberOfPixels(workUnits[id + 1].imageRegion)
  /\ workUnits' = [workUnits EXCEPT ![id + 1] = LoopEnd(mask, @, samplesPtr[id])]
  /\ pcCallback' = [pcCallback EXCEPT ![id] = "returned"]
  /\ returnOrder' = Append(returnOrder, id)
  /\ UNCHANGED <<inputImage, mask, region, numberOfWorkUnits, globalMaxThreads,
                 useMultiThread, sampleContainer, samples, pcMain, iterPos, samplesPtr>>
  /\ SamplerOnly

\* ---- MultiThreadedGenerateData after SingleMethodExecute, end of GenerateData ----
\* SingleMethodExecute returns when every callback has returned; the slices are
\* merged (with a mask) and the vector is swapped into the output container.
GenerateDataMultiThreadedEnd ==
  /\ pcMain = "executing"
  /\ \A id \in CallbackIds : pcCallback[id] \in {"none", "returned"}
  /\ sampleContainer' = MergeWorkUnits(mask, workUnits, samples)
  /\ samples' = <<>>
  /\ pcMain' = "done"
  /\ UNCHANGED <<inputImage, mask, region, numberOfWorkUnits, globalMaxThreads,
                 useMultiThread, workUnits, pcCallback, iterPos, samplesPtr, returnOrder>>
  /\ SamplerOnly

NextSampler ==
  \/ GenerateDataSingleThreaded
  \/ GenerateDataMultiThreadedBegin
  \/ \E id \in CallbackIds : ThreaderCallbackNoWorkUnit(id)
  \/ \E id \in CallbackIds : ThreaderCallbackEnter(id)
  \/ \E id \in CallbackIds : ThreaderCallbackIterate(id)
  \/ \E id \in CallbackIds : ThreaderCallbackReturn(id)
  \/ GenerateDataMultiThreadedEnd

\* =========================================================================
\*                             CustomImageMetric
\* =========================================================================
\* A double is modelled as an exact decimal number with one fractional digit,
\* held as its number of tenths (1.0 is 10); sums and products are exact.

\* Largest number of images of the metric and of transform parameters.
MaxImages == 2
MaxParameters == 2


\* ---- std::stod ----
DigitValue ==
  [c \in {"0", "1", "2", "3", "4", "5", "6", "7", "8", "9"} |->
     CASE c = "0" -> 0 [] c = "1" -> 1 [] c = "2" -> 2 [] c = "3" -> 3 [] c = "4" -> 4
       [] c = "5" -> 5 [] c = "6" -> 6 [] c = "7" -> 7 [] c = "8" -> 8 [] c = "9" -> 9]

IsDigit(c) == c \in DOMAIN DigitValue

\* The number of digits of str from position k (1-based) on.
RECURSIVE DigitRun(_, _)
DigitRun(str, k) ==
  IF k <= Len(str) /\ IsDigit(str[k]) THEN 1 + DigitRun(str, k + 1) ELSE 0

\* The decimal value of the n digits of str that start at position k.
RECURSIVE DigitsValue(_, _, _)
DigitsValue(str, k, n) ==
  IF n = 0 THEN 0
  ELSE 10 * DigitsValue(str, k, n - 1) + DigitValue[str[k + n - 1]]

\* std::stod(str): the longest prefix that is a decimal number is converted,
\* what follows it is ignored; std::invalid_argument if there is no such prefix.
\* [ok, tenths]: whether a number was converted, and the number in tenths.
Stod(str) ==
  LET intLen == DigitRun(str, 1)
      hasPoint == intLen < Len(str) /\ str[intLen + 1] = "."
      fracLen == IF hasPoint THEN DigitRun(str, intLen + 2) ELSE 0
  IN  IF intLen + fracLen = 0
        THEN [ok |-> FALSE, tenths |-> 0]
        ELSE [ok |-> TRUE,
              tenths |-> 10 * DigitsValue(str, 1, intLen)
                           + (IF fracLen > 0 THEN DigitValue[str[intLen + 2]] ELSE 0)]

\* The literal 1.0.
OneDouble == Stod(<<"1", ".", "0">>).tenths

\* ---- CustomImageMetric::GetValueAndDerivative ----
\* Mutation: the check only fires when there are too many weights.
WeightsMismatchMutant(weights, n) == Len(weights) > n

\* m_ImageWeights.size() != GetNumberOfImages()
WeightsMismatch(weights, n) == Len(weights) # n

\* Mutation: the weight of the image is not applied.
AccumulateMutant(total, imageWeight, result) ==
  [value |-> total.value + result.value,
   derivative |-> [j \in DOMAIN total.derivative |->
                     total.derivative[j] + result.derivative[j]]]

\* totalValue += imageWeight * value_i; totalDerivative += imageWeight * derivative_i
Accumulate(total, imageWeight, result) ==
  [value |-> total.value + imageWeight * result.value,
   derivative |-> [j \in DOMAIN total.derivative |->
                     total.derivative[j] + imageWeight * result.derivative[j]]]

\* The loop over the images, from C++ index i on; results[i + 1] is what
\* ComputeValueAndDerivativeForImage(i, parameters, ...) returns.
RECURSIVE WeightedLoop(_, _, _, _)
WeightedLoop(weights, results, i, total) ==
  IF i >= Len(weights) THEN total
  ELSE WeightedLoop(weights, results, i + 1,
                    Accumulate(total, weights[i + 1], results[i + 1]))

\* totalValue = 0.0; totalDerivative.SetSize(parameters.Size()); Fill(0.0)
ZeroTotal(parameters) ==
  [value |-> 0, derivative |-> [j \in 1 .. Len(parameters) |-> 0]]

\* ---- CustomImageMetric::Initialize ----
\* push_back(std::stod(weightStr)) for each string from the k-th on; a
\* throwing std::stod ends the loop and leaves what was pushed so far.
RECURSIVE PushBackAll(_, _, _)
PushBackAll(weights, strings, k) ==
  IF k > Len(strings) THEN [weights |-> weights, threw |-> FALSE]
  ELSE IF ~Stod(strings[k]).ok THEN [weights |-> weights, threw |-> TRUE]
  ELSE PushBackAll(Append(weights, Stod(strings[k]).tenths), strings, k + 1)

\* Mutation: the stored weights are not cleared before the new ones are pushed.
ParseImageWeightsMutant(old, strings) == PushBackAll(old, strings, 1)

\* m_ImageWeights.clear(), then the loop over imageWeightStrings.
ParseImageWeights(old, strings) == PushBackAll(<<>>, strings, 1)

\* m_ImageWeights.resize(n, 1.0): only the elements that are added get 1.0.
ResizeWeights(weights, n) ==
  [k \in 1 .. n |-> IF k <= Len(weights) THEN weights[k] ELSE OneDouble]

\* ---- inputs ----
\* Weight strings of the "ImageWeights" parameter.
WeightStrings == { <<"0", ".", "5">>, <<"2", "x">>, <<"x">> }

\* Weights handed to SetImageWeights (0.5 and 2.0).
WeightValues == { Stod(str).tenths : str \in { <<"0", ".", "5">>, <<"2">> } }

SeqsUpTo(S, n) == UNION { [1 .. k -> S] : k \in 0 .. n }

\* What ComputeValueAndDerivativeForImage can return for p parameters.
ImageResults(p) ==
  { [value |-> 2, derivative |-> [j \in 1 .. p |-> j]],
    [value |-> -1, derivative |-> [j \in 1 .. p |-> 3 - (2 * j)]] }

Parameters == { [j \in 1 .. p |-> 0] : p \in 1 .. MaxParameters }

\* What the caller's value and derivative variables hold when it calls
\* GetValueAndDerivative: nothing yet, or the outputs of an earlier evaluation.
NoOutputs == [value |-> 0, derivative |-> <<>>]
CallerOutputs == { NoOutputs, [value |-> 4, derivative |-> <<8>>] }

InitMetric ==
  /\ numberOfImages \in 1 .. MaxImages
  /\ m_ImageWeights = <<>>   \* the constructor clears the weights
  /\ value = NoOutputs.value
  /\ derivative = NoOutputs.derivative
  /\ evaluated = <<>>
  /\ lastCall = [op |-> "constructor", threw |-> FALSE]

IdleMetric ==
  /\ numberOfImages = 1
  /\ m_ImageWeights = <<>>
  /\ value = NoOutputs.value
  /\ derivative = NoOutputs.derivative
  /\ evaluated = <<>>
  /\ lastCall = [op |-> "constructor", threw |-> FALSE]

\* value, derivative and evaluated belong to a call of GetValueAndDerivative;
\* the other operations have no such arguments.
NoEvaluation ==
  /\ value' = NoOutputs.value
  /\ derivative' = NoOutputs.derivative
  /\ evaluated' = <<>>

\* ---- CustomImageMetric::SetImageWeights, as defined in the class (CustomImageMetric.h) ----
SetImageWeightsInline(weights) ==
  /\ m_ImageWeights' = weights
  /\ lastCall' = [op |-> "SetImageWeights", definition |-> "h", threw |-> FALSE,
                  size |-> Len(weights), weights |-> weights]
  /\ NoEvaluation
  /\ UNCHANGED numberOfImages
  /\ MetricOnly

\* ---- CustomImageMetric::SetImageWeights, as defined in CustomImageMetric.hxx ----
SetImageWeightsChecked(weights) ==
  /\ IF Len(weights) # numberOfImages
       THEN /\ UNCHANGED m_ImageWeights
            /\ lastCall' = [op |-> "SetImageWeights", definition |-> "hxx", threw |-> TRUE,
                            size |-> Len(weights), weightsBefore |-> m_ImageWeights]
       ELSE /\ m_ImageWeights' = weights
            /\ lastCall' = [op |-> "SetImageWeights", definition |-> "hxx", threw |-> FALSE,
                            size |-> Len(weights), weights |-> weights]
  /\ NoEvaluation
  /\ UNCHANGED numberOfImages
  /\ MetricOnly

\* ---- CustomImageMetric::Initialize ----
\* Superclass::Initialize() raises: nothing of this class has run yet.
InitializeSuperclassThrows ==
  /\ lastCall' = [op |-> "Initialize", threw |-> TRUE, superclassThrew |-> TRUE,
                  hasParameter |-> FALSE, strings |-> <<>>,
                  weightsBefore |-> m_ImageWeights, sizeBefore |-> Len(m_ImageWeights)]
  /\ NoEvaluation
  /\ UNCHANGED <<numberOfImages, m_ImageWeights>>
  /\ MetricOnly

\* hasParameter and strings: what GetOptimizerParameter("ImageWeights",
\* imageWeightStrings) gives.
Initialize(hasParameter, strings) ==
  /\ LET parsed == ParseImageWeights(m_ImageWeights, strings)
         stored == IF hasParameter THEN parsed.weights
                   ELSE ResizeWeights(m_ImageWeights, numberOfImages)
         threw == \/ hasParameter /\ parsed.threw
                  \/ Len(stored) # numberOfImages
     IN  /\ m_ImageWeights' = stored
         /\ lastCall' = [op |-> "Initialize", threw |-> threw, superclassThrew |-> FALSE,
                         hasParameter |-> hasParameter, strings |-> strings,
                         weightsBefore |-> IF hasParameter THEN <<>> ELSE m_ImageWeights,
                         sizeBefore |-> Len(m_ImageWeights)]
  /\ NoEvaluation
  /\ UNCHANGED numberOfImages
  /\ MetricOnly

\* ---- CustomImageMetric::GetValueAndDerivative ----
\* The number of stored weights differs from the number of images: the
\* exception leaves the function before the loop and before the outputs are set.
GetValueAndDerivativeThrows(parameters, before) ==
  /\ WeightsMismatch(m_ImageWeights, numberOfImages)
  /\ value' = before.value
  /\ derivative' = before.derivative
  /\ evaluated' = <<>>
  /\ lastCall' = [op |-> "GetValueAndDerivative", threw |-> TRUE,
                  parameters |-> parameters, before |-> before]
  /\ UNCHANGED <<numberOfImages, m_ImageWeights>>
  /\ MetricOnly

\* results[i + 1]: what ComputeValueAndDerivativeForImage gives for image i.
GetValueAndDerivative(parameters, results, before) ==
  /\ ~WeightsMismatch(m_ImageWeights, numberOfImages)
  /\ LET total == WeightedLoop(m_ImageWeights, results, 0, ZeroTotal(parameters))
     IN  /\ value' = total.value
         /\ derivative' = total.derivative
  /\ evaluated' = [i \in 1 .. Len(m_ImageWeights) |-> i - 1]
  /\ lastCall' = [op |-> "GetValueAndDerivative", threw |-> FALSE,
                  parameters |-> parameters, results |-> results, before |-> before]
  /\ UNCHANGED <<numberOfImages, m_ImageWeights>>
  /\ MetricOnly

NextMetric ==
  \/ \E weights \in SeqsUpTo(WeightValues, MaxImages + 1) : SetImageWeightsInline(weights)
  \/ \E weights \in SeqsUpTo(WeightValues, MaxImages + 1) : SetImageWeightsChecked(weights)
  \/ InitializeSuperclassThrows
  \/ Initialize(FALSE, <<>>)
  \/ \E strings \in SeqsUpTo(WeightStrings, MaxImages + 1) : Initialize(TRUE, strings)
  \/ \E parameters \in Parameters, before \in CallerOutputs :
       GetValueAndDerivativeThrows(parameters, before)
  \/ \E parameters \in Parameters, before \in CallerOutputs :
       \E results \in [1 .. Len(m_ImageWeights) -> ImageResults(Len(parameters))] :
         GetValueAndDerivative(parameters, results, before)

\* =========================================================================
\*                 elastix::AdvancedMeanSquaresMetric::BeforeAll
\* =========================================================================


NoImage == "no image"
NotCalled == [called |-> FALSE]

FixedFileNames == {"", "fixedWeights.mha"}
MovingFileNames == {"", "movingWeights.mha"}

\* Return values of the superclass methods: 0 is success.
ReturnValues == {0, 1, 2}

InitElx ==
  /\ configuration \in [FixedWeightMap : FixedFileNames, MovingWeightMap : MovingFileNames]
  /\ readableFiles \in SUBSET ((FixedFileNames \cup MovingFileNames) \ {""})
  /\ m_FixedWeightMapFileName = ""
  /\ m_MovingWeightMapFileName = ""
  /\ fixedWeightImage = NoImage
  /\ movingWeightImage = NoImage
  /\ filesRead = <<>>
  /\ readParameterFile = NotCalled
  /\ beforeAll = NotCalled

IdleElx ==
  /\ configuration = [FixedWeightMap |-> "", MovingWeightMap |-> ""]
  /\ readableFiles = {}
  /\ m_FixedWeightMapFileName = ""
  /\ m_MovingWeightMapFileName = ""
  /\ fixedWeightImage = NoImage
  /\ movingWeightImage = NoImage
  /\ filesRead = <<>>
  /\ readParameterFile = NotCalled
  /\ beforeAll = NotCalled

\* ---- AdvancedMeanSquaresMetric::ReadParameterFile ----
\* superclassReturn: what the superclass's ReadParameterFile returns.
ReadParameterFile(superclassReturn) ==
  /\ ~beforeAll.called
  /\ IF superclassReturn # 0
       THEN /\ UNCHANGED <<m_FixedWeightMapFileName, m_MovingWeightMapFileName>>
            /\ readParameterFile' = [called |-> TRUE, returnValue |-> superclassReturn]
       ELSE /\ m_FixedWeightMapFileName' = configuration.FixedWeightMap
            /\ m_MovingWeightMapFileName' = configuration.MovingWeightMap
            /\ readParameterFile' = [called |-> TRUE, returnValue |-> 0]
  /\ UNCHANGED <<configuration, readableFiles, fixedWeightImage, movingWeightImage,
                 filesRead, beforeAll>>
  /\ ElxOnly

\* Mutation: a fixed weight map that fails to load does not end BeforeAll.
LoadWeightMapsMutant(fixedName, movingName, readable) ==
  LET fixedOk == fixedName # "" /\ fixedName \in readable
      movingOk == movingName # "" /\ movingName \in readable
  IN  [returnValue |-> IF movingName # "" /\ ~movingOk THEN 1 ELSE 0,
       filesRead |-> (IF fixedName # "" THEN <<fixedName>> ELSE <<>>)
                       \o (IF movingName # "" THEN <<movingName>> ELSE <<>>),
       fixed |-> IF fixedOk THEN fixedName ELSE NoImage,
       moving |-> IF movingOk THEN movingName ELSE NoImage]

\* ---- BeforeAll after the superclass call: reading and setting the weight maps ----
\* [returnValue, filesRead, fixed, moving]: the value returned, the files read,
\* and the weight images the metric holds afterwards.
LoadWeightMaps(fixedName, movingName, readable) ==
  IF fixedName = "" /\ movingName = ""
    THEN [returnValue |-> 0, filesRead |-> <<>>, fixed |-> NoImage, moving |-> NoImage]
  ELSE IF fixedName # "" /\ fixedName \notin readable
    THEN [returnValue |-> 1, filesRead |-> <<fixedName>>,
          fixed |-> NoImage, moving |-> NoImage]
  ELSE LET fixedRead == IF fixedName # "" THEN <<fixedName>> ELSE <<>>
           fixedSet == IF fixedName # "" THEN fixedName ELSE NoImage
       IN  IF movingName = ""
             THEN [returnValue |-> 0, filesRead |-> fixedRead,
                   fixed |-> fixedSet, moving |-> NoImage]
           ELSE IF movingName \notin readable
             THEN [returnValue |-> 1, filesRead |-> Append(fixedRead, movingName),
                   fixed |-> fixedSet, moving |-> NoImage]
           ELSE [returnValue |-> 0, filesRead |-> Append(fixedRead, movingName),
                 fixed |-> fixedSet, moving |-> movingName]

\* The state after LoadWeightMaps.
WeightMapsLoaded(definition, superclassReturn) ==
  LET r == LoadWeightMaps(m_FixedWeightMapFileName, m_MovingWeightMapFileName,
                          readableFiles)
  IN  /\ filesRead' = filesRead \o r.filesRead
      /\ fixedWeightImage' = IF r.fixed # NoImage THEN r.fixed ELSE fixedWeightImage
      /\ movingWeightImage' = IF r.moving # NoImage THEN r.moving ELSE movingWeightImage
      /\ beforeAll' = [called |-> TRUE, definition |-> definition,
                       superclassReturn |-> superclassReturn,
                       returnValue |-> r.returnValue]

\* ---- AdvancedMeanSquaresMetric::BeforeAll, elxAdvancedMeanSquaresMetric.hxx ----
BeforeAllHxx(superclassReturn) ==
  /\ ~beforeAll.called
  /\ IF superclassReturn # 0
       THEN /\ beforeAll' = [called |-> TRUE, definition |-> "hxx",
                             superclassReturn |-> superclassReturn,
                             returnValue |-> superclassReturn]
            /\ UNCHANGED <<filesRead, fixedWeightImage, movingWeightImage>>
       ELSE WeightMapsLoaded("hxx", superclassReturn)
  /\ UNCHANGED <<configuration, readableFiles, m_FixedWeightMapFileName,
                 m_MovingWeightMapFileName, readParameterFile>>
  /\ ElxOnly

\* ---- AdvancedMeanSquaresMetric::BeforeAll, elxAdvancedMeanSquaresMetric.cxx ----
\* The value the superclass returns is discarded.
BeforeAllCxx(superclassReturn) ==
  /\ ~beforeAll.called
  /\ WeightMapsLoaded("cxx", superclassReturn)
  /\ UNCHANGED <<configuration, readableFiles, m_FixedWeightMapFileName,
                 m_MovingWeightMapFileName, readParameterFile>>
  /\ ElxOnly

NextElx ==
  \/ \E superclassReturn \in ReturnValues : ReadParameterFile(superclassReturn)
  \/ \E superclassReturn \in ReturnValues : BeforeAllHxx(superclassReturn)
  \/ \E superclassReturn \in ReturnValues : BeforeAllCxx(superclassReturn)

\* =========================================================================
\*             elastix::AdvancedMattesMutualInformationMetric
\* =========================================================================

\* Largest number of iterations of a resolution, and the largest number of
\* file names in the parameter "ImagePairMetricWeights".
MaxIterations == 3
MaxWeightFiles == 2

\* The values the constructor and BeforeEachResolution give c (in tenths) and
\* gamma (in thousandths) when the parameter file does not.
DefaultParam_c == 10
DefaultParam_gamma == 101

\* An entry of the parameter file: <<v>> for a parameter of value v, Absent
\* for a parameter that the parameter file does not have.
Absent == <<>>

\* What the parameter file can hold for SP_c (tenths) and SP_gamma (thousandths).
SP_cValues == {Absent, <<20>>}
SP_gammaValues == {Absent, <<2000>>}

WeightMatrixFileNames == {"weights0.mha", "weights1.mha"}

FileNameLists(n) == UNION { [1 .. k -> WeightMatrixFileNames] : k \in 0 .. n }

\* What the parameter file can hold for ImagePairMetricWeights.
ImagePairMetricWeightsValues ==
  {Absent} \cup { <<names>> : names \in FileNameLists(MaxWeightFiles) }

\* configuration.ReadParameter(param, name, ...): the parameter keeps its
\* initial value when the parameter file does not have the name.
ReadParameter(initial, entry) == IF entry = Absent THEN initial ELSE entry[1]

\* std::pow(base, gamma), gamma in thousandths, as the exact real number
\* base^(gamma/1000): <<b, g>> stands for b^(g/1000). Integral exponents are
\* computed; 1^x and x^0 are 1.
RECURSIVE IntPow(_, _)
IntPow(base, n) == IF n = 0 THEN 1 ELSE base * IntPow(base, n - 1)

Pow(base, gamma) ==
  IF base = 1 \/ gamma = 0 THEN <<1, 1000>>
  ELSE IF gamma % 1000 = 0 THEN <<IntPow(base, gamma \div 1000), 1000>>
  ELSE <<base, gamma>>

\* ---- AdvancedMattesMutualInformationMetric::Compute_c ----
\* The quotient c / (k + 1)^gamma, kept as numerator and denominator.
Compute_c(k, c, gamma) == [numerator |-> c, denominator |-> Pow(k + 1, gamma)]

\* The image an ImageFileReader returns for a file.
ReaderOutput(fileName) == [image |-> fileName]

\* Mutation: a file that cannot be read is skipped.
LoadWeightMatricesMutant(fileNames, readable) ==
  LET ok == SelectSeq(fileNames, LAMBDA f : f \in readable)
  IN  [raised |-> FALSE,
       weightMatrices |-> [k \in 1 .. Len(ok) |-> ReaderOutput(ok[k])]]

\* The loop over the file names: every file is read and its image appended;
\* the first file that cannot be read ends the loop with the reader's exception.
LoadWeightMatrices(fileNames, readable) ==
  LET failing == { k \in 1 .. Len(fileNames) : fileNames[k] \notin readable }
  IN  IF failing # {}
        THEN [raised |-> TRUE,
              weightMatrices |->
                [k \in 1 .. ((CHOOSE f \in failing : \A g \in failing : f <= g) - 1)
                   |-> ReaderOutput(fileNames[k])]]
        ELSE [raised |-> FALSE,
              weightMatrices |-> [k \in 1 .. Len(fileNames) |-> ReaderOutput(fileNames[k])]]

\* Mutation: the iteration counter advances whatever the derivative in use.
AdvanceIterationMutant(useFiniteDifferenceDerivative, currentIteration) ==
  currentIteration + 1

\* m_CurrentIteration after AfterEachIteration.
AdvanceIteration(useFiniteDifferenceDerivative, currentIteration) ==
  IF useFiniteDifferenceDerivative THEN currentIteration + 1 ELSE currentIteration

NoResolution == [called |-> FALSE]

\* The state the constructor leaves.
Constructed ==
  /\ m_UseFiniteDifferenceDerivative = FALSE
  /\ m_CurrentIteration = 0
  /\ m_Param_c = DefaultParam_c
  /\ m_Param_gamma = DefaultParam_gamma
  /\ m_FiniteDifferencePerturbation = Compute_c(0, DefaultParam_c, DefaultParam_gamma)
  /\ m_WeightMatrices = <<>>
  /\ iterationsDone = 0
  /\ lastResolution = NoResolution

InitMattes == Constructed /\ resolution = "none"

IdleMattes == Constructed /\ resolution = "idle"

\* ---- AdvancedMattesMutualInformationMetric::BeforeEachResolution ----
\* The inputs are what the parameter file holds at this resolution level and
\* the files a reader can read. An exception ends the registration.
BeforeEachResolution(parameterFile, readable) ==
  LET useFiniteDifferenceDerivative ==
        ReadParameter(FALSE, parameterFile.FiniteDifferenceDerivative)
      c == ReadParameter(DefaultParam_c, parameterFile.SP_c)
      gamma == ReadParameter(DefaultParam_gamma, parameterFile.SP_gamma)
      weightMatrixFilenames == ReadParameter(<<>>, parameterFile.ImagePairMetricWeights)
      loaded == LoadWeightMatrices(weightMatrixFilenames, readable)
      raised == loaded.raised \/ loaded.weightMatrices = <<>>
  IN  /\ resolution \in {"none", "running"}
      /\ m_UseFiniteDifferenceDerivative' = useFiniteDifferenceDerivative
      /\ m_CurrentIteration' = 0
      /\ IF useFiniteDifferenceDerivative
           THEN /\ m_Param_c' = c
                /\ m_Param_gamma' = gamma
                /\ m_FiniteDifferencePerturbation' = Compute_c(0, c, gamma)
           ELSE UNCHANGED <<m_Param_c, m_Param_gamma, m_FiniteDifferencePerturbation>>
      /\ m_WeightMatrices' = IF loaded.raised THEN m_WeightMatrices
                             ELSE loaded.weightMatrices
      /\ resolution' = IF raised THEN "aborted" ELSE "running"
      /\ iterationsDone' = 0
      /\ lastResolution' = [called |-> TRUE,
                            weightMatrixFilenames |-> weightMatrixFilenames,
                            readable |-> readable,
                            raised |-> raised]
      /\ MattesOnly

\* ---- AdvancedMattesMutualInformationMetric::AfterEachIteration ----
AfterEachIteration ==
  /\ resolution = "running"
  /\ iterationsDone < MaxIterations
  /\ m_CurrentIteration' =
       AdvanceIteration(m_UseFiniteDifferenceDerivative, m_CurrentIteration)
  /\ m_FiniteDifferencePerturbation' =
       IF m_UseFiniteDifferenceDerivative
         THEN Compute_c(m_CurrentIteration', m_Param_c, m_Param_gamma)
         ELSE m_FiniteDifferencePerturbation
  /\ iterationsDone' = iterationsDone + 1
  /\ UNCHANGED <<m_UseFiniteDifferenceDerivative, m_Param_c, m_Param_gamma,
                 m_WeightMatrices, resolution, lastResolution>>
  /\ MattesOnly

NextMattes ==
  \/ \E parameterFile \in [FiniteDifferenceDerivative : {Absent, <<FALSE>>, <<TRUE>>},
                             SP_c : SP_cValues, SP_gamma : SP_gammaValues,
                             ImagePairMetricWeights : ImagePairMetricWeightsValues],
        readable \in SUBSET WeightMatrixFileNames :
       BeforeEachResolution(parameterFile, readable)
  \/ AfterEachIteration

\* =========================================================================
\*                  elastix::MainBase::GetComponentDatabase
\* =========================================================================

\* Number of threads that call GetComponentDatabase, and the largest number
\* of calls of one thread.
MaxCallers == 3
MaxCalls == 2

Callers == 1 .. MaxCallers

NoDatabase == 0

\* Mutation: a thread runs the initializer whenever the static is not yet set.
MayInitializeMutant(guard) == guard # "initialized"

\* A thread runs the initializer of the static when no thread has begun to.
MayInitialize(guard) == guard = "uninitialized"

InitDatabase ==
  /\ staticGuard = "uninitialized"
  /\ staticComponentDatabase = NoDatabase
  /\ databases = <<>>
  /\ loadComponentsCalls = 0
  /\ errorsLogged = 0
  /\ pcCaller = [t \in Callers |-> "idle"]
  /\ componentDatabase = [t \in Callers |-> NoDatabase]
  /\ callPath = [t \in Callers |-> "direct"]
  /\ returned = [t \in Callers |-> <<>>]

IdleDatabase ==
  /\ staticGuard = "uninitialized"
  /\ staticComponentDatabase = NoDatabase
  /\ databases = <<>>
  /\ loadComponentsCalls = 0
  /\ errorsLogged = 0
  /\ pcCaller = [t \in Callers |-> "absent"]
  /\ componentDatabase = [t \in Callers |-> NoDatabase]
  /\ callPath = [t \in Callers |-> "direct"]
  /\ returned = [t \in Callers |-> <<>>]

\* A thread calls GetComponentDatabase and reaches the declaration of the
\* static: it runs the initializer, waits for the thread that runs it, or
\* goes on to the return statement.
GetComponentDatabaseEnter(t) ==
  /\ pcCaller[t] = "idle"
  /\ Len(returned[t]) < MaxCalls
  /\ IF MayInitialize(staticGuard)
       THEN /\ staticGuard' = "initializing"
            /\ pcCaller' = [pcCaller EXCEPT ![t] = "initializer"]
            /\ callPath' = [callPath EXCEPT ![t] = "initializer"]
       ELSE /\ UNCHANGED staticGuard
            /\ pcCaller' = [pcCaller EXCEPT ![t] =
                 IF staticGuard = "initialized" THEN "return" ELSE "waiting"]
            /\ callPath' = [callPath EXCEPT ![t] =
                 IF staticGuard = "initialized" THEN "direct" ELSE "waited"]
  /\ UNCHANGED <<staticComponentDatabase, databases, loadComponentsCalls,
                 errorsLogged, componentDatabase, returned>>
  /\ DatabaseOnly

\* A waiting thread goes on when the initialization is complete.
GetComponentDatabaseWake(t) ==
  /\ pcCaller[t] = "waiting"
  /\ staticGuard = "initialized"
  /\ pcCaller' = [pcCaller EXCEPT ![t] = "return"]
  /\ UNCHANGED <<staticGuard, staticComponentDatabase, databases,
                 loadComponentsCalls, errorsLogged, componentDatabase, returned>>
  /\ UNCHANGED callPath
  /\ DatabaseOnly

\* ComponentDatabase::New(), ComponentLoader::New(), SetComponentDatabase.
NewComponentDatabase(t) ==
  /\ pcCaller[t] = "initializer"
  /\ databases' = Append(databases, "empty")
  /\ componentDatabase' = [componentDatabase EXCEPT ![t] = Len(databases) + 1]
  /\ pcCaller' = [pcCaller EXCEPT ![t] = "loader"]
  /\ UNCHANGED <<staticGuard, staticComponentDatabase, loadComponentsCalls,
                 errorsLogged, returned>>
  /\ UNCHANGED callPath
  /\ DatabaseOnly

\* componentLoader->LoadComponents() begins to fill the database.
LoadComponentsBegin(t) ==
  /\ pcCaller[t] = "loader"
  /\ databases' = [databases EXCEPT ![componentDatabase[t]] = "loading"]
  /\ loadComponentsCalls' = loadComponentsCalls + 1
  /\ pcCaller' = [pcCaller EXCEPT ![t] = "loading"]
  /\ UNCHANGED <<staticGuard, staticComponentDatabase, errorsLogged,
                 componentDatabase, returned>>
  /\ UNCHANGED callPath
  /\ DatabaseOnly

\* LoadComponents returns; a nonzero result is logged.
LoadComponentsEnd(t, result) ==
  /\ pcCaller[t] = "loading"
  /\ databases' = [databases EXCEPT ![componentDatabase[t]] =
                     IF result = 0 THEN "loaded" ELSE "failed"]
  /\ errorsLogged' = IF result # 0 THEN errorsLogged + 1 ELSE errorsLogged
  /\ pcCaller' = [pcCaller EXCEPT ![t] = "initialized"]
  /\ UNCHANGED <<staticGuard, staticComponentDatabase, loadComponentsCalls,
                 componentDatabase, returned>>
  /\ UNCHANGED callPath
  /\ DatabaseOnly

\* The initializer returns componentDatabase: the static is set.
InitializerReturn(t) ==
  /\ pcCaller[t] = "initialized"
  /\ staticComponentDatabase' = componentDatabase[t]
  /\ staticGuard' = "initialized"
  /\ pcCaller' = [pcCaller EXCEPT ![t] = "return"]
  /\ UNCHANGED <<databases, loadComponentsCalls, errorsLogged, componentDatabase,
                 returned>>
  /\ UNCHANGED callPath
  /\ DatabaseOnly

\* return *staticComponentDatabase: the caller has the object and sees its state.
GetComponentDatabaseReturn(t) ==
  /\ pcCaller[t] = "return"
  /\ returned' = [returned EXCEPT ![t] =
       Append(@, [database |-> staticComponentDatabase,
                  path |-> callPath[t],
                  state |-> IF staticComponentDatabase = NoDatabase THEN "none"
                            ELSE databases[staticComponentDatabase]])]
  /\ pcCaller' = [pcCaller EXCEPT ![t] = "idle"]
  /\ UNCHANGED <<staticGuard, staticComponentDatabase, databases,
                 loadComponentsCalls, errorsLogged, componentDatabase>>
  /\ UNCHANGED callPath
  /\ DatabaseOnly

NextDatabase ==
  \/ \E t \in Callers : GetComponentDatabaseEnter(t)
  \/ \E t \in Callers : GetComponentDatabaseWake(t)
  \/ \E t \in Callers : NewComponentDatabase(t)
  \/ \E t \in Callers : LoadComponentsBegin(t)
  \/ \E t \in Callers, result \in {0, 1} : LoadComponentsEnd(t, result)
  \/ \E t \in Callers : InitializerReturn(t)
  \/ \E t \in Callers : GetComponentDatabaseReturn(t)

\* =========================================================================
\*          itk::OpenCLContext and the destructor of elastix::MainBase
\* =========================================================================

\* Largest number of pointers obtained from New() and GetInstance(), and the
\* largest number of Create calls.
MaxPointers == 3
MaxCreateCalls == 2

NoContext == 0

\* The singleton after a call that has to return it: the existing object, or
\* a newly constructed one when there is none.
SingletonInstance(instance, made) == IF instance = NoContext THEN made + 1 ELSE instance

\* IsCreated() after Create: a successful Create leaves a created context.
AfterCreate(created, succeeds) == created \/ succeeds

\* IsCreated() after Release.
AfterRelease(created) == FALSE

\* Mutation: the destructor of MainBase never releases the context.
ReleasesContextMutant(created) == FALSE

\* The destructor of MainBase releases the context if it is created.
ReleasesContext(created) == created

NoContextCall == [op |-> "none"]

InitContext ==
  /\ contextInstance = NoContext
  /\ contextsMade = 0
  /\ contextCreated = FALSE
  /\ pointers = <<>>
  /\ createCalls = 0
  /\ createdOnce = FALSE
  /\ lastContextCall = NoContextCall

IdleContext ==
  /\ contextInstance = NoContext
  /\ contextsMade = 0
  /\ contextCreated = FALSE
  /\ pointers = <<>>
  /\ createCalls = 0
  /\ createdOnce = FALSE
  /\ lastContextCall = [op |-> "idle"]

ContextRuns == lastContextCall.op # "idle"

\* The singleton is handed out by New() and by GetInstance().
ObtainPointer(op) ==
  /\ ContextRuns
  /\ Len(pointers) < MaxPointers
  /\ contextInstance' = SingletonInstance(contextInstance, contextsMade)
  /\ contextsMade' = IF contextInstance = NoContext THEN contextsMade + 1 ELSE contextsMade
  /\ pointers' = Append(pointers, [op |-> op, pointer |-> contextInstance'])
  /\ lastContextCall' = [op |-> op]
  /\ UNCHANGED <<contextCreated, createCalls, createdOnce>>
  /\ ContextOnly

\* auto contextNull = itk::OpenCLContext::New();
OpenCLContextNew == ObtainPointer("New")

\* itk::OpenCLContext::Pointer context = itk::OpenCLContext::GetInstance();
OpenCLContextGetInstance == ObtainPointer("GetInstance")

\* context->Create(...) on a pointer obtained before; it succeeds or not.
OpenCLContextCreate(succeeds) ==
  /\ ContextRuns
  /\ pointers # <<>>
  /\ createCalls < MaxCreateCalls
  /\ contextCreated' = AfterCreate(contextCreated, succeeds)
  /\ createCalls' = createCalls + 1
  /\ createdOnce' = (createdOnce \/ succeeds)
  /\ lastContextCall' = [op |-> "Create", succeeds |-> succeeds]
  /\ UNCHANGED <<contextInstance, contextsMade, pointers>>
  /\ ContextOnly

\* ---- MainBase::~MainBase (ELASTIX_USE_OPENCL defined) ----
MainBaseDestructor ==
  /\ ContextRuns
  /\ contextInstance' = SingletonInstance(contextInstance, contextsMade)
  /\ contextsMade' = IF contextInstance = NoContext THEN contextsMade + 1 ELSE contextsMade
  /\ contextCreated' = IF ReleasesContext(contextCreated)
                         THEN AfterRelease(contextCreated)
                         ELSE contextCreated
  /\ lastContextCall' = [op |-> "~MainBase", wasCreated |-> contextCreated,
                         released |-> ReleasesContext(contextCreated)]
  /\ UNCHANGED <<pointers, createCalls, createdOnce>>
  /\ ContextOnly

NextContext ==
  \/ OpenCLContextNew
  \/ OpenCLContextGetInstance
  \/ \E succeeds \in BOOLEAN : OpenCLContextCreate(succeeds)
  \/ MainBaseDestructor

\* =========================================================================
\*     itk::ImageRandomSampler as used by itkImageRandomSamplerGTest.cxx
\* =========================================================================

\* Largest seed, number of samples of a run, and largest number of pixels of
\* the input image.
MaxSeed == 1
NumberOfRandomSamples == 3
MaxRandomPixels == 4

\* The random generator: a linear congruential generator of full period.
GeneratorModulus == 8
NextGeneratorState(state) == (5 * state + 3) % GeneratorModulus

\* What a generator that was never seeded can hold.
UnseededStates == {2, 5}

\* Mutation: seeding leaves the generator as it is.
ReseedMutant(state, seed) == state

\* The generator after it is seeded.
Reseed(state, seed) == seed % GeneratorModulus

\* CreateImageFilledWithSequenceOfNaturalNumbers: pixel number i has value i.
RandomImages == { [i \in 1 .. n |-> i] : n \in 2 .. MaxRandomPixels }

NoSample == [pixel |-> 0, value |-> 0]

\* The sample of a random number: a pixel of the image and its value.
RandomSample(image, number) ==
  LET pixel == (number % Len(image)) + 1
  IN  [pixel |-> pixel, value |-> image[pixel]]

\* Mutation: a thread appends its sample after the samples stored before.
StoreSampleMutant(container, position, sample) ==
  LET free == { k \in 1 .. Len(container) : container[k] = NoSample }
  IN  [container EXCEPT ![CHOOSE k \in free : \A l \in free : k <= l] = sample]

\* The sample of the random number at a position is stored at that position.
StoreSample(container, position, sample) == [container EXCEPT ![position] = sample]

InitRandom ==
  /\ randomImage \in RandomImages
  /\ seeds \in [1 .. 2 -> 0 .. MaxSeed]
  /\ multiThreaded \in [1 .. 2 -> BOOLEAN]
  /\ run = 1
  /\ pcRandom = "none"
  /\ generator = 0
  /\ randomNumberList = <<>>
  /\ randomSamples = <<>>
  /\ storedPositions = <<>>
  /\ outputs = <<>>

IdleRandom ==
  /\ randomImage = <<>>
  /\ seeds = [r \in 1 .. 2 |-> 0]
  /\ multiThreaded = [r \in 1 .. 2 |-> FALSE]
  /\ run = 1
  /\ pcRandom = "idle"
  /\ generator = 0
  /\ randomNumberList = <<>>
  /\ randomSamples = <<>>
  /\ storedPositions = <<>>
  /\ outputs = <<>>

\* elx::DefaultConstruct<SamplerType> sampler{}: a sampler of its own for every run.
ConstructSampler(unseeded) ==
  /\ pcRandom = "none"
  /\ run <= 2
  /\ generator' = unseeded
  /\ pcRandom' = "constructed"
  /\ UNCHANGED <<randomImage, seeds, multiThreaded, run, randomNumberList,
                 randomSamples, storedPositions, outputs>>
  /\ RandomOnly

\* SetUseMultiThread, SetSeed, SetInput, and the begin of Update: the
\* generator is seeded and the container is sized.
UpdateBegin ==
  /\ pcRandom = "constructed"
  /\ generator' = Reseed(generator, seeds[run])
  /\ randomNumberList' = <<>>
  /\ randomSamples' = [k \in 1 .. NumberOfRandomSamples |-> NoSample]
  /\ pcRandom' = "numbers"
  /\ UNCHANGED <<randomImage, seeds, multiThreaded, run, storedPositions, outputs>>
  /\ RandomOnly

\* The random numbers of the run are drawn one after the other, by one thread.
DrawRandomNumber ==
  /\ pcRandom = "numbers"
  /\ randomNumberList' = Append(randomNumberList, generator)
  /\ generator' = NextGeneratorState(generator)
  /\ pcRandom' = IF Len(randomNumberList') = NumberOfRandomSamples
                   THEN "sampling" ELSE "numbers"
  /\ UNCHANGED <<randomImage, seeds, multiThreaded, run, randomSamples,
                 storedPositions, outputs>>
  /\ RandomOnly

Unstored ==
  { k \in 1 .. NumberOfRandomSamples :
      \A i \in 1 .. Len(storedPositions) : storedPositions[i] # k }

\* Single-threaded: the samples are stored from the first to the last.
StoreNextSample ==
  /\ pcRandom = "sampling"
  /\ ~multiThreaded[run]
  /\ Unstored # {}
  /\ LET position == Len(storedPositions) + 1
     IN  /\ randomSamples' = StoreSample(randomSamples, position,
                               RandomSample(randomImage, randomNumberList[position]))
         /\ storedPositions' = Append(storedPositions, position)
  /\ UNCHANGED <<randomImage, seeds, multiThreaded, run, pcRandom, generator,
                 randomNumberList, outputs>>
  /\ RandomOnly

\* Multi-threaded: the threads store the samples of their positions in any order.
StoreSampleOfThread(position) ==
  /\ pcRandom = "sampling"
  /\ multiThreaded[run]
  /\ position \in Unstored
  /\ randomSamples' = StoreSample(randomSamples, position,
                        RandomSample(randomImage, randomNumberList[position]))
  /\ storedPositions' = Append(storedPositions, position)
  /\ UNCHANGED <<randomImage, seeds, multiThreaded, run, pcRandom, generator,
                 randomNumberList, outputs>>
  /\ RandomOnly

\* End of Update: the test takes the output; the next run begins.
UpdateEnd ==
  /\ pcRandom = "sampling"
  /\ Unstored = {}
  /\ outputs' = Append(outputs, [samples |-> randomSamples, order |-> storedPositions])
  /\ run' = run + 1
  /\ pcRandom' = "none"
  /\ storedPositions' = <<>>
  /\ UNCHANGED <<randomImage, seeds, multiThreaded, generator, randomNumberList,
                 randomSamples>>
  /\ RandomOnly

NextRandom ==
  \/ \E unseeded \in UnseededStates : ConstructSampler(unseeded)
  \/ UpdateBegin
  \/ DrawRandomNumber
  \/ StoreNextSample
  \/ \E position \in 1 .. NumberOfRandomSamples : StoreSampleOfThread(position)
  \/ UpdateEnd

\* =========================================================================
\*    itk::TransformixFilter as used by itkTransformixFilterGTest.cxx, and
\*    the ITK filters and transforms the tests compare it with
\* =========================================================================

\* ---- vectors and matrices ----
VecAdd(u, v) == [i \in 1 .. Len(u) |-> u[i] + v[i]]
VecSub(u, v) == [i \in 1 .. Len(u) |-> u[i] - v[i]]
VecNeg(u) == [i \in 1 .. Len(u) |-> 0 - u[i]]
ZeroVector(d) == [i \in 1 .. d |-> 0]

RECURSIVE DotTo(_, _, _)
DotTo(u, v, n) == IF n = 0 THEN 0 ELSE DotTo(u, v, n - 1) + u[n] * v[n]
Dot(u, v) == DotTo(u, v, Len(u))

MatVec(m, x) == [i \in 1 .. Len(m) |-> Dot(m[i], x)]
MatMul(a, b) ==
  [i \in 1 .. Len(a) |-> [j \in 1 .. Len(a) |-> Dot(a[i], [k \in 1 .. Len(a) |-> b[k][j]])]]
IdentityMatrix(d) == [i \in 1 .. d |-> [j \in 1 .. d |-> IF i = j THEN 1 ELSE 0]]
ScaleMatrix(m, s) == [i \in 1 .. Len(m) |-> [j \in 1 .. Len(m) |-> s * m[i][j]]]

\* Angles are counted in quarter turns, which keeps sine and cosine integral.
Cos(q) == CASE q % 4 = 0 -> 1 [] q % 4 = 1 -> 0 [] q % 4 = 2 -> -1 [] OTHER -> 0
Sin(q) == CASE q % 4 = 0 -> 0 [] q % 4 = 1 -> 1 [] q % 4 = 2 -> 0 [] OTHER -> -1

Rotation2D(q) == << <<Cos(q), 0 - Sin(q)>>, <<Sin(q), Cos(q)>> >>
RotationX(q) == << <<1, 0, 0>>, <<0, Cos(q), 0 - Sin(q)>>, <<0, Sin(q), Cos(q)>> >>
RotationY(q) == << <<Cos(q), 0, Sin(q)>>, <<0, 1, 0>>, <<0 - Sin(q), 0, Cos(q)>> >>
RotationZ(q) == << <<Cos(q), 0 - Sin(q), 0>>, <<Sin(q), Cos(q), 0>>, <<0, 0, 1>> >>

\* ---- images ----
\* The sizes of the images of the tests.
TestImageSize(d) == IF d = 2 THEN <<5, 6>> ELSE <<5, 6, 7>>

\* The indices of an image whose index is zero.
IndexRange(size) ==
  IF Len(size) = 2
    THEN { <<x, y>> : x \in 0 .. size[1] - 1, y \in 0 .. size[2] - 1 }
    ELSE { <<x, y, z>> : x \in 0 .. size[1] - 1, y \in 0 .. size[2] - 1,
                         z \in 0 .. size[3] - 1 }

\* The place of a pixel in the image buffer, the first dimension running fastest.
RECURSIVE BufferOffset(_, _, _)
BufferOffset(size, index, n) ==
  IF n = 0 THEN 0 ELSE index[1] + size[1] * BufferOffset(Tail(size), Tail(index), n - 1)

CreateImageFilledWithSequenceOfNaturalNumbers(size) ==
  [size |-> size,
   pixels |-> [index \in IndexRange(size) |-> BufferOffset(size, index, Len(size)) + 1]]

\* An image of zeroes with the pixels of a region set to one.
FillImageRegion(size, regionIndex, regionSize) ==
  [size |-> size,
   pixels |-> [index \in IndexRange(size) |->
                 IF \A i \in 1 .. Len(size) :
                      /\ regionIndex[i] <= index[i]
                      /\ index[i] < regionIndex[i] + regionSize[i]
                   THEN 1 ELSE 0]]

TestImages(d) ==
  IF d = 2
    THEN {CreateImageFilledWithSequenceOfNaturalNumbers(TestImageSize(2)),
          FillImageRegion(TestImageSize(2), <<2, 1>>, <<2, 2>>)}
    ELSE {CreateImageFilledWithSequenceOfNaturalNumbers(TestImageSize(3))}

\* ---- ITK transforms: a class name, parameters and fixed parameters ----
SubVector(seq, from, n) == [i \in 1 .. n |-> seq[from + i - 1]]

RECURSIVE Flatten(_)
Flatten(rows) == IF rows = <<>> THEN <<>> ELSE Head(rows) \o Flatten(Tail(rows))

TranslationTransform(offset) ==
  [class |-> "TranslationTransform", dimension |-> Len(offset),
   parameters |-> offset, fixedParameters |-> <<>>]

AffineTransform(matrix, translation, center) ==
  [class |-> "AffineTransform", dimension |-> Len(translation),
   parameters |-> Flatten(matrix) \o translation, fixedParameters |-> center]

Euler2DTransform(angle, translation, center) ==
  [class |-> "Euler2DTransform", dimension |-> 2,
   parameters |-> <<angle>> \o translation, fixedParameters |-> center]

Euler3DTransform(angles, translation, center) ==
  [class |-> "Euler3DTransform", dimension |-> 3,
   parameters |-> angles \o translation, fixedParameters |-> center \o <<0>>]

Similarity2DTransform(scale, angle, translation, center) ==
  [class |-> "Similarity2DTransform", dimension |-> 2,
   parameters |-> <<scale, angle>> \o translation, fixedParameters |-> center]

\* The rotation of a 3-D similarity transform is kept as quarter turns about
\* the coordinate axes, where ITK keeps a versor.
Similarity3DTransform(scale, rotation, translation, center) ==
  [class |-> "Similarity3DTransform", dimension |-> 3,
   parameters |-> rotation \o translation \o <<scale>>, fixedParameters |-> center]

\* A B-spline transform over a grid of gridSize control points per dimension
\* that spans the physical dimensions; the fixed parameters are the grid size
\* and the physical dimensions.
BSplineTransform(gridSize, physicalDimensions, coefficients) ==
  [class |-> "BSplineTransform", dimension |-> Len(physicalDimensions),
   parameters |-> coefficients,
   fixedParameters |-> [i \in 1 .. Len(physicalDimensions) |-> gridSize]
                         \o physicalDimensions]

CompositeTransform(transforms) ==
  [class |-> "CompositeTransform", dimension |-> transforms[1].dimension,
   transforms |-> transforms]

\* Matrix, center and translation of a matrix-and-offset transform.
GetMatrix(t) ==
  LET p == t.parameters
      d == t.dimension
  IN  CASE t.class = "TranslationTransform" -> IdentityMatrix(d)
        [] t.class = "AffineTransform" -> [i \in 1 .. d |-> SubVector(p, (i - 1) * d + 1, d)]
        [] t.class = "Euler2DTransform" -> Rotation2D(p[1])
        [] t.class = "Euler3DTransform" ->
             MatMul(RotationZ(p[3]), MatMul(RotationX(p[1]), RotationY(p[2])))
        [] t.class = "Similarity2DTransform" -> ScaleMatrix(Rotation2D(p[2]), p[1])
        [] t.class = "Similarity3DTransform" ->
             ScaleMatrix(MatMul(RotationX(p[1]), MatMul(RotationY(p[2]), RotationZ(p[3]))),
                         p[7])

GetTranslation(t) ==
  LET p == t.parameters
      d == t.dimension
  IN  CASE t.class = "TranslationTransform" -> p
        [] t.class = "AffineTransform" -> SubVector(p, d * d + 1, d)
        [] t.class = "Euler2DTransform" -> SubVector(p, 2, 2)
        [] t.class = "Euler3DTransform" -> SubVector(p, 4, 3)
        [] t.class = "Similarity2DTransform" -> SubVector(p, 3, 2)
        [] t.class = "Similarity3DTransform" -> SubVector(p, 4, 3)

GetCenter(t) ==
  IF t.class = "TranslationTransform" THEN ZeroVector(t.dimension)
  ELSE SubVector(t.fixedParameters, 1, t.dimension)

\* The control point of the cell a point lies in, and the displacement of
\* that control point; the weights of the spline are left out.
BSplineCell(t, point) ==
  LET d == t.dimension
      gridSize == SubVector(t.fixedParameters, 1, d)
      physicalDimensions == SubVector(t.fixedParameters, d + 1, d)
  IN  [i \in 1 .. d |->
         LET cell == (point[i] * gridSize[i]) \div physicalDimensions[i]
         IN  IF cell < 0 THEN 0 ELSE IF cell >= gridSize[i] THEN gridSize[i] - 1 ELSE cell]

BSplineDisplacement(t, point) ==
  LET d == t.dimension
      gridSize == SubVector(t.fixedParameters, 1, d)
      controlPoints == Len(t.parameters) \div d
      cell == BufferOffset(gridSize, BSplineCell(t, point), d)
  IN  [i \in 1 .. d |-> t.parameters[(i - 1) * controlPoints + cell + 1]]

\* TransformPoint of a transform that is not composite.
TransformPoint(t, point) ==
  IF t.class = "BSplineTransform"
    THEN VecAdd(point, BSplineDisplacement(t, point))
    ELSE VecAdd(VecAdd(MatVec(GetMatrix(t), VecSub(point, GetCenter(t))), GetCenter(t)),
                GetTranslation(t))

\* itk::CompositeTransform::TransformPoint: the transform added last is
\* applied first.
RECURSIVE CompositeTransformPoint(_, _)
CompositeTransformPoint(transforms, point) ==
  IF transforms = <<>> THEN point
  ELSE CompositeTransformPoint(SubVector(transforms, 1, Len(transforms) - 1),
                               TransformPoint(transforms[Len(transforms)], point))

ItkTransformPoint(t, point) ==
  IF t.class = "CompositeTransform" THEN CompositeTransformPoint(t.transforms, point)
  ELSE TransformPoint(t, point)

\* ---- resampling ----
\* The value of an image at a point of integral coordinates: the pixel at
\* that index, and the default pixel value zero outside the image. Origin
\* zero, unit spacing and identity direction, as in the tests.
ImageValueAt(image, point) ==
  IF point \in DOMAIN image.pixels THEN image.pixels[point] ELSE 0

\* ---- itk::ResampleImageFilter ----
ResampleImageFilter(image, transform, size) ==
  [size |-> size,
   pixels |-> [index \in IndexRange(size) |->
                 ImageValueAt(image, ItkTransformPoint(transform, index))]]

\* ---- the parameter map of CreateTransformixFilter ----
\* itk::NumberToString and the conversion back, for whole numbers.
RECURSIVE DigitsOf(_)
DigitsOf(n) ==
  LET digit == CHOOSE c \in DOMAIN DigitValue : DigitValue[c] = n % 10
  IN  IF n < 10 THEN <<digit>> ELSE Append(DigitsOf(n \div 10), digit)

NumberToString(n) == IF n < 0 THEN <<"-">> \o DigitsOf(0 - n) ELSE DigitsOf(n)

StringToNumber(str) ==
  IF str[1] = "-" THEN 0 - DigitsValue(str, 2, Len(str) - 1)
  ELSE DigitsValue(str, 1, Len(str))

ConvertToParameterValues(container) ==
  [i \in 1 .. Len(container) |-> NumberToString(container[i])]

ConvertToNumbers(values) == [i \in 1 .. Len(values) |-> StringToNumber(values[i])]

\* The transform name of the parameter map: the name of the class without
\* "2D" or "3D".
TransformName(class) ==
  CASE class \in {"Euler2DTransform", "Euler3DTransform"} -> "EulerTransform"
    [] class \in {"Similarity2DTransform", "Similarity3DTransform"} -> "SimilarityTransform"
    [] OTHER -> class

ParameterMap(image, transform, initialFileName, howToCombine) ==
  [HowToCombineTransforms |-> howToCombine,
   InitialTransformParametersFileName |-> initialFileName,
   ITKTransformParameters |-> ConvertToParameterValues(transform.parameters),
   ITKTransformFixedParameters |-> ConvertToParameterValues(transform.fixedParameters),
   Size |-> ConvertToParameterValues(image.size),
   Transform |-> TransformName(transform.class)]

\* ---- itk::TransformixFilter ----
\* The class of the ITK transform of a transform name, for images of d dimensions.
ItkClassOfName(name, d) ==
  CASE name = "EulerTransform" -> IF d = 2 THEN "Euler2DTransform" ELSE "Euler3DTransform"
    [] name = "SimilarityTransform" ->
         IF d = 2 THEN "Similarity2DTransform" ELSE "Similarity3DTransform"
    [] OTHER -> name

\* Mutation: the fixed parameters of the parameter map are not used.
FixedParametersOfMapMutant(map) ==
  [i \in 1 .. Len(map.ITKTransformFixedParameters) |-> 1]

FixedParametersOfMap(map) == ConvertToNumbers(map.ITKTransformFixedParameters)

\* The transform the filter builds from the parameter map.
TransformOfParameterMap(map) ==
  [class |-> ItkClassOfName(map.Transform, Len(map.Size)),
   dimension |-> Len(map.Size),
   parameters |-> ConvertToNumbers(map.ITKTransformParameters),
   fixedParameters |-> FixedParametersOfMap(map)]

NoInitialTransform == "NoInitialTransform"
TranslationFileName == "Translation(1,-2)/TransformParameters.txt"

\* The offset of the translation of the file Translation(1,-2)/TransformParameters.txt.
FileOffset == <<1, -2>>

\* Mutation: the initial transform of the file is taken to be the identity.
InitialTransformOfFileMutant(fileName) == <<TranslationTransform(ZeroVector(2))>>

\* The initial transform a file name stands for, if any.
InitialTransformOfFile(fileName) ==
  IF fileName = NoInitialTransform THEN <<>> ELSE <<TranslationTransform(FileOffset)>>

\* Mutation: the current transform is applied before the initial one.
ComposeMutant(initial, current, point) ==
  TransformPoint(initial, TransformPoint(current, point))

\* "Compose": the initial transform is applied first, the current one to its result.
Compose(initial, current, point) ==
  TransformPoint(current, TransformPoint(initial, point))

\* "Add": the displacements of the initial and of the current transform are added.
Add(initial, current, point) ==
  VecAdd(TransformPoint(initial, point), VecSub(TransformPoint(current, point), point))

CombinationTransformPoint(map, point) ==
  LET current == TransformOfParameterMap(map)
      initial == InitialTransformOfFile(map.InitialTransformParametersFileName)
  IN  IF initial = <<>> THEN TransformPoint(current, point)
      ELSE IF map.HowToCombineTransforms = "Compose"
        THEN Compose(initial[1], current, point)
        ELSE Add(initial[1], current, point)

TransformixFilter(image, map) ==
  LET size == ConvertToNumbers(map.Size)
  IN  [size |-> size,
       pixels |-> [index \in IndexRange(size) |->
                     ImageValueAt(image, CombinationTransformPoint(map, index))]]

\* ---- the transforms of the tests ----
TestOffsets(d) ==
  IF d = 2 THEN {<<1, -2>>, <<-1, 2>>, <<0, 0>>}
  ELSE {<<1, -2, 3>>, <<1, 2, 3>>, <<0, 0, 0>>}

TestCenters(d) == IF d = 2 THEN {<<0, 0>>, <<2, 3>>} ELSE {<<0, 0, 0>>, <<3, 2, 1>>}

TestAngles == {0, 1}
TestScales == {1, 2}

\* GeneratePseudoRandomParameters: n coefficients between -1 and 1.
GeneratePseudoRandomParameters(n, seed) ==
  [k \in 1 .. n |-> ((k * k + seed * k + seed) % 3) - 1]

TestTransforms(d) ==
  { TranslationTransform(o) : o \in TestOffsets(d) }
    \cup { AffineTransform(ScaleMatrix(IdentityMatrix(d), s), o, c) :
             s \in TestScales \cup {3}, o \in TestOffsets(d), c \in TestCenters(d) }
    \cup { AffineTransform(IF d = 2 THEN Rotation2D(1) ELSE RotationZ(1), o, c) :
             o \in TestOffsets(d), c \in TestCenters(d) }
    \cup { BSplineTransform(2, TestImageSize(d), GeneratePseudoRandomParameters(d * 2^d, seed))
             : seed \in {0, 1} }
    \cup (IF d = 2
            THEN { Euler2DTransform(a, o, c) :
                     a \in TestAngles, o \in TestOffsets(2), c \in TestCenters(2) }
                 \cup { Similarity2DTransform(s, a, o, c) :
                          s \in TestScales, a \in TestAngles, o \in TestOffsets(2),
                          c \in TestCenters(2) }
            ELSE { Euler3DTransform(<<2 * a, a, 0>>, o, c) :
                     a \in TestAngles, o \in TestOffsets(3), c \in TestCenters(3) }
                 \cup { Similarity3DTransform(s, <<0, 0, a>>, o, c) :
                          s \in TestScales, a \in TestAngles, o \in TestOffsets(3),
                          c \in TestCenters(3) })

NotUpdated == [size |-> <<>>, pixels |-> <<>>]

ResampleTransforms == {"transform", "transformAndTranslation", "translationAndTransform"}

InitTransformix ==
  /\ pcTest = "none"
  /\ testImage = NotUpdated
  /\ itkTransform = TranslationTransform(ZeroVector(2))
  /\ initialTransformParametersFileName = NoInitialTransform
  /\ howToCombineTransforms = "Compose"
  /\ transformixOutput = NotUpdated
  /\ resampleOutput = [r \in ResampleTransforms |-> NotUpdated]

IdleTransformix ==
  /\ pcTest = "idle"
  /\ testImage = NotUpdated
  /\ itkTransform = TranslationTransform(ZeroVector(2))
  /\ initialTransformParametersFileName = NoInitialTransform
  /\ howToCombineTransforms = "Compose"
  /\ transformixOutput = NotUpdated
  /\ resampleOutput = [r \in ResampleTransforms |-> NotUpdated]

\* A test begins: its input image, its ITK transform, and the initial
\* transform file it names, if any (the file is one of 2-D transforms).
BeginTest(d, image, transform, fileName, howToCombine) ==
  /\ pcTest = "none"
  /\ fileName = TranslationFileName => d = 2
  /\ pcTest' = "ready"
  /\ testImage' = image
  /\ itkTransform' = transform
  /\ initialTransformParametersFileName' = fileName
  /\ howToCombineTransforms' = howToCombine
  /\ transformixOutput' = NotUpdated
  /\ resampleOutput' = [r \in ResampleTransforms |-> NotUpdated]
  /\ TransformixOnly

\* CreateTransformixFilter: the parameter map is set and the filter updated.
CreateTransformixFilter ==
  /\ pcTest = "ready"
  /\ transformixOutput = NotUpdated
  /\ transformixOutput' =
       TransformixFilter(testImage,
                         ParameterMap(testImage, itkTransform,
                                      initialTransformParametersFileName,
                                      howToCombineTransforms))
  /\ UNCHANGED <<pcTest, testImage, itkTransform, initialTransformParametersFileName,
                 howToCombineTransforms, resampleOutput>>
  /\ TransformixOnly

\* The transform a ResampleImageFilter of the tests is given: the transform
\* of the test, or a composite of it and the translation of the file.
ResampleTransform(which) ==
  CASE which = "transform" -> itkTransform
    [] which = "transformAndTranslation" ->
         CompositeTransform(<<itkTransform, TranslationTransform(FileOffset)>>)
    [] which = "translationAndTransform" ->
         CompositeTransform(<<TranslationTransform(FileOffset), itkTransform>>)

\* CreateResampleImageFilter: the filter is given the image, a transform and
\* the size of the image, and updated.
CreateResampleImageFilter(which) ==
  /\ pcTest = "ready"
  /\ resampleOutput[which] = NotUpdated
  /\ which # "transform" => itkTransform.dimension = 2
  /\ resampleOutput' = [resampleOutput EXCEPT ![which] =
       ResampleImageFilter(testImage, ResampleTransform(which), testImage.size)]
  /\ UNCHANGED <<pcTest, testImage, itkTransform, initialTransformParametersFileName,
                 howToCombineTransforms, transformixOutput>>
  /\ TransformixOnly

NextTransformix ==
  \/ \E d \in {2, 3} : \E image \in TestImages(d), transform \in TestTransforms(d),
        fileName \in {NoInitialTransform, TranslationFileName},
        howToCombine \in {"Compose", "Add"} :
       BeginTest(d, image, transform, fileName, howToCombine)
  \/ CreateTransformixFilter
  \/ \E which \in ResampleTransforms : CreateResampleImageFilter(which)

\* Each specification runs one component; the others stay as constructed.
SamplerInit == InitSampler /\ IdleMetric /\ IdleElx /\ IdleMattes /\
  IdleDatabase /\ IdleContext /\ IdleRandom /\ IdleTransformix
SpecSampler == SamplerInit /\ [][NextSampler]_vars

MetricInit == InitMetric /\ IdleSampler /\ IdleElx /\ IdleMattes /\
  IdleDatabase /\ IdleContext /\ IdleRandom /\ IdleTransformix
SpecMetric == MetricInit /\ [][NextMetric]_vars

ElxInit == InitElx /\ IdleSampler /\ IdleMetric /\ IdleMattes /\
  IdleDatabase /\ IdleContext /\ IdleRandom /\ IdleTransformix
SpecBeforeAll == ElxInit /\ [][NextElx]_vars

MattesInit == InitMattes /\ IdleSampler /\ IdleMetric /\ IdleElx /\
  IdleDatabase /\ IdleContext /\ IdleRandom /\ IdleTransformix
SpecMattes == MattesInit /\ [][NextMattes]_vars

DatabaseInit == InitDatabase /\ IdleSampler /\ IdleMetric /\ IdleElx /\
  IdleMattes /\ IdleContext /\ IdleRandom /\ IdleTransformix
SpecDatabase == DatabaseInit /\ [][NextDatabase]_vars

ContextInit == InitContext /\ IdleSampler /\ IdleMetric /\ IdleElx /\
  IdleMattes /\ IdleDatabase /\ IdleRandom /\ IdleTransformix
SpecContext == ContextInit /\ [][NextContext]_vars

RandomInit == InitRandom /\ IdleSampler /\ IdleMetric /\ IdleElx /\
  IdleMattes /\ IdleDatabase /\ IdleContext /\ IdleTransformix
SpecRandom == RandomInit /\ [][NextRandom]_vars

TransformixInit == InitTransformix /\ IdleSampler /\ IdleMetric /\ IdleElx /\
  IdleMattes /\ IdleDatabase /\ IdleContext /\ IdleRandom
SpecTransformix == TransformixInit /\ [][NextTransformix]_vars

\* =========================================================================
\*                     Properties of itk::ImageFullSampler
\* =========================================================================

SamplerDone == pcMain = "done"

\* The sample the sampler has to produce for the pixel at index p.
SampleOfIndex(p) ==
  [point |-> <<Origin[1] + Spacing[1] * p[1], Origin[2] + Spacing[2] * p[2]>>,
   value |-> inputImage[p]]

Occurrences(seq, x) == Cardinality({ k \in 1 .. Len(seq) : seq[k] = x })

\* C1: for every input image, cropped region, mask and number of work units,
\* GenerateData with multi-threading enabled ends with exactly the sample
\* sequence (same samples, same order, same length) that
\* SingleThreadedGenerateData yields for the same inputs.
C1_MultiThreadedEqualsSingleThreaded ==
  (SamplerDone /\ useMultiThread) =>
    sampleContainer = SingleThreadedGenerateData(inputImage, mask, region, <<>>)

\* A multi-threaded run over several work units, with a mask that lets some
\* pixels through, has finished.
C1_Witness ==
  /\ SamplerDone /\ useMultiThread /\ mask.present
  /\ Len(workUnits) >= 2
  /\ Len(sampleContainer) >= 2
  /\ Len(sampleContainer) < GetNumberOfPixels(region)

\* C2: without a mask the output holds exactly one sample per pixel of the
\* cropped region (point and pixel value), every pixel exactly once and no
\* entry left unwritten, in the single- and in the multi-threaded path.
C2_NoMaskOneSamplePerPixel ==
  (SamplerDone /\ ~mask.present) =>
    /\ Len(sampleContainer) = GetNumberOfPixels(region)
    /\ \A p \in RegionIndices(region) : Occurrences(sampleContainer, SampleOfIndex(p)) = 1
    /\ \A k \in 1 .. Len(sampleContainer) : sampleContainer[k] # DefaultSample

\* A multi-threaded run without a mask over at least two work units has finished.
C2_Witness ==
  /\ SamplerDone /\ ~mask.present /\ useMultiThread
  /\ Len(workUnits) >= 2
  /\ Len(sampleContainer) >= 4

\* The indices of the cropped region whose physical point lies inside the mask.
InsideIndices ==
  { p \in RegionIndices(region) :
      <<Origin[1] + Spacing[1] * p[1], Origin[2] + Spacing[2] * p[2]>> \in mask.inside }

\* C3: with a mask the output holds exactly the samples of the inside-mask
\* pixels: its length is their number, each of them occurs exactly once, and
\* every entry is the sample of an inside pixel (no outside pixel, no stale
\* and no value-initialised entry).
C3_MaskExactlyInsideSamples ==
  (SamplerDone /\ mask.present) =>
    /\ Len(sampleContainer) = Cardinality(InsideIndices)
    /\ \A p \in InsideIndices : Occurrences(sampleContainer, SampleOfIndex(p)) = 1
    /\ \A k \in 1 .. Len(sampleContainer) :
         \E p \in InsideIndices : sampleContainer[k] = SampleOfIndex(p)

\* A masked multi-threaded run has finished in which the first work unit
\* collected no sample, a later one did, and pixels were left out.
C3_Witness ==
  /\ SamplerDone /\ mask.present /\ useMultiThread
  /\ Len(workUnits) >= 2
  /\ workUnits[1].NumberOfSamples = 0
  /\ \E i \in 2 .. Len(workUnits) :
       /\ workUnits[i].NumberOfSamples > 0
       /\ workUnits[i].NumberOfSamples < GetNumberOfPixels(workUnits[i].imageRegion)

\* The samples work unit wu has to contribute, in its iteration order.
RECURSIVE SamplesOfWorkUnit(_, _)
SamplesOfWorkUnit(wu, k) ==
  IF k >= GetNumberOfPixels(wu.imageRegion) THEN <<>>
  ELSE LET p == IteratorIndex(wu.imageRegion, k)
       IN  (IF mask.present => p \in InsideIndices THEN <<SampleOfIndex(p)>> ELSE <<>>)
             \o SamplesOfWorkUnit(wu, k + 1)

RECURSIVE SamplesOfWorkUnits(_)
SamplesOfWorkUnits(i) ==
  IF i > Len(workUnits) THEN <<>>
  ELSE SamplesOfWorkUnit(workUnits[i], 0) \o SamplesOfWorkUnits(i + 1)

\* C4: whatever the interleaving of the callbacks, the multi-threaded output
\* is the concatenation, in work-unit order, of every work unit's samples in
\* its own iteration order.
C4_OutputIndependentOfScheduling ==
  (SamplerDone /\ useMultiThread) => sampleContainer = SamplesOfWorkUnits(1)

\* A finished run in which the callback of the last work unit returned before
\* the callback of the first one, both having collected samples.
C4_Witness ==
  /\ SamplerDone /\ useMultiThread
  /\ Len(workUnits) >= 2
  /\ Len(returnOrder) >= 2
  /\ returnOrder[1] = Len(workUnits) - 1
  /\ \E k \in 2 .. Len(returnOrder) : returnOrder[k] = 0
  /\ \A i \in 1 .. Len(workUnits) : mask.present => workUnits[i].NumberOfSamples > 0
  /\ Len(sampleContainer) >= 2


\* =========================================================================
\*                       Properties of CustomImageMetric
\* =========================================================================

\* The sum of f[1] .. f[n].
RECURSIVE SumTo(_, _)
SumTo(f, n) == IF n = 0 THEN 0 ELSE SumTo(f, n - 1) + f[n]

LastWas(op) == lastCall.op = op

\* C5: when the number of stored weights equals the number of images,
\* GetValueAndDerivative returns value = sum_i weight[i] * value_i and
\* derivative = sum_i weight[i] * derivative_i, one component per parameter.
C5_WeightedSumOfImageResults ==
  (LastWas("GetValueAndDerivative") /\ Len(m_ImageWeights) = numberOfImages) =>
    /\ ~lastCall.threw
    /\ value = SumTo([i \in 1 .. numberOfImages |->
                        m_ImageWeights[i] * lastCall.results[i].value], numberOfImages)
    /\ derivative =
         [j \in 1 .. Len(lastCall.parameters) |->
            SumTo([i \in 1 .. numberOfImages |->
                     m_ImageWeights[i] * lastCall.results[i].derivative[j]],
                  numberOfImages)]

\* An evaluation over two images with different weights and different
\* per-image results, for two parameters, has overwritten earlier outputs.
C5_Witness ==
  /\ LastWas("GetValueAndDerivative") /\ ~lastCall.threw
  /\ numberOfImages >= 2
  /\ m_ImageWeights[1] # m_ImageWeights[2]
  /\ lastCall.results[1] # lastCall.results[2]
  /\ Len(lastCall.parameters) >= 2
  /\ lastCall.before # NoOutputs
  /\ value # lastCall.before.value

\* C6: GetValueAndDerivative raises an error exactly when the number of stored
\* weights differs from the number of images, and then it evaluates no
\* per-image metric and leaves the caller's value and derivative as they were.
C6_MismatchRaisesAndLeavesOutputs ==
  LastWas("GetValueAndDerivative") =>
    /\ lastCall.threw <=> (Len(m_ImageWeights) # numberOfImages)
    /\ lastCall.threw =>
         /\ evaluated = <<>>
         /\ value = lastCall.before.value
         /\ derivative = lastCall.before.derivative

\* A call with fewer weights than images (but some) has raised, the caller's
\* variables holding the outputs of an earlier evaluation.
C6_Witness ==
  /\ LastWas("GetValueAndDerivative") /\ lastCall.threw
  /\ Len(m_ImageWeights) > 0
  /\ Len(m_ImageWeights) < numberOfImages
  /\ lastCall.before # NoOutputs
  /\ value = lastCall.before.value

\* C7: when no "ImageWeights" parameter is provided, after Initialize there is
\* exactly one weight per image and every weight is 1.0, whatever weights were
\* stored before.
C7_InitializeDefaultsAllWeightsToOne ==
  (LastWas("Initialize") /\ ~lastCall.superclassThrew /\ ~lastCall.hasParameter) =>
    /\ Len(m_ImageWeights) = numberOfImages
    /\ \A k \in 1 .. Len(m_ImageWeights) : m_ImageWeights[k] = OneDouble

\* C8: SetImageWeights with a vector whose length differs from the number of
\* images raises an error and leaves the stored weights unchanged; with a
\* vector of matching length it replaces the stored weights by that vector.
C8_SetImageWeightsChecksLength ==
  LastWas("SetImageWeights") =>
    IF lastCall.size # numberOfImages
      THEN lastCall.threw /\ m_ImageWeights = lastCall.weightsBefore
      ELSE ~lastCall.threw /\ m_ImageWeights = lastCall.weights

\* C9: after Initialize returns without error there is one weight per image;
\* with an "ImageWeights" parameter the stored weights are the parsed values
\* in order, and Initialize raises an error if their count differs from the
\* number of images.
C9_InitializeStoresParsedWeights ==
  LastWas("Initialize") =>
    /\ ~lastCall.threw => Len(m_ImageWeights) = numberOfImages
    /\ (lastCall.hasParameter /\ ~lastCall.threw) =>
         /\ Len(m_ImageWeights) = Len(lastCall.strings)
         /\ \A k \in 1 .. Len(lastCall.strings) :
              /\ Stod(lastCall.strings[k]).ok
              /\ m_ImageWeights[k] = Stod(lastCall.strings[k]).tenths
    /\ (lastCall.hasParameter /\ Len(lastCall.strings) # numberOfImages) => lastCall.threw

\* Initialize with two different weight strings has replaced earlier weights.
C9_Witness ==
  /\ LastWas("Initialize") /\ lastCall.hasParameter /\ ~lastCall.threw
  /\ numberOfImages >= 2
  /\ lastCall.sizeBefore > 0
  /\ lastCall.strings[1] # lastCall.strings[2]
  /\ m_ImageWeights[1] # m_ImageWeights[2]

\* =========================================================================
\*               Properties of AdvancedMeanSquaresMetric::BeforeAll
\* =========================================================================

\* C10: when the superclass BeforeAll returns a non-zero value, BeforeAll
\* returns that value, reads no weight-map file and sets no weight image.
C10_BeforeAllPropagatesSuperclassFailure ==
  (beforeAll.called /\ beforeAll.superclassReturn # 0) =>
    /\ beforeAll.returnValue = beforeAll.superclassReturn
    /\ filesRead = <<>>
    /\ fixedWeightImage = NoImage
    /\ movingWeightImage = NoImage


InSeq(x, seq) == \E k \in 1 .. Len(seq) : seq[k] = x

\* C11: with the superclass succeeding, BeforeAll returns 0 and sets no weight
\* image when both file names are empty; it returns 1 as soon as a specified
\* weight map fails to load (after a failing fixed weight map the moving one
\* is neither read nor set); it returns 0 only if every specified weight map
\* was loaded and set in the metric.
C11_BeforeAllWeightMapOutcomes ==
  (beforeAll.called /\ beforeAll.superclassReturn = 0) =>
    LET fixedFails == m_FixedWeightMapFileName # ""
                        /\ m_FixedWeightMapFileName \notin readableFiles
        movingFails == m_MovingWeightMapFileName # ""
                         /\ m_MovingWeightMapFileName \notin readableFiles
    IN  /\ (m_FixedWeightMapFileName = "" /\ m_MovingWeightMapFileName = "") =>
             /\ beforeAll.returnValue = 0
             /\ filesRead = <<>>
             /\ fixedWeightImage = NoImage /\ movingWeightImage = NoImage
        /\ fixedFails =>
             /\ beforeAll.returnValue = 1
             /\ fixedWeightImage = NoImage /\ movingWeightImage = NoImage
             /\ ~InSeq(m_MovingWeightMapFileName, filesRead)
        /\ movingFails =>
             /\ beforeAll.returnValue = 1
             /\ movingWeightImage = NoImage
        /\ beforeAll.returnValue = 0 =>
             /\ ~fixedFails /\ ~movingFails
             /\ m_FixedWeightMapFileName # "" =>
                  /\ fixedWeightImage = m_FixedWeightMapFileName
                  /\ InSeq(m_FixedWeightMapFileName, filesRead)
             /\ m_MovingWeightMapFileName # "" =>
                  /\ movingWeightImage = m_MovingWeightMapFileName
                  /\ InSeq(m_MovingWeightMapFileName, filesRead)

\* BeforeAll has returned 1 for a fixed weight map that cannot be read, the
\* moving weight map being specified and readable.
C11_Witness ==
  /\ beforeAll.called /\ beforeAll.superclassReturn = 0
  /\ m_FixedWeightMapFileName # "" /\ m_FixedWeightMapFileName \notin readableFiles
  /\ m_MovingWeightMapFileName # "" /\ m_MovingWeightMapFileName \in readableFiles
  /\ beforeAll.returnValue = 1
  /\ filesRead = <<m_FixedWeightMapFileName>>


\* =========================================================================
\*        Properties of elastix::AdvancedMattesMutualInformationMetric
\* =========================================================================

\* C12: BeforeEachResolution raises if any file named by the parameter
\* "ImagePairMetricWeights" fails to load, and raises if the resulting list is
\* empty (the parameter being absent included); when it completes normally
\* the stored list has exactly one weight matrix per file name, in the order
\* of the file names.
C12_WeightMatricesLoadedOrRaised ==
  (lastResolution.called /\ iterationsDone = 0) =>
    LET fileNames == lastResolution.weightMatrixFilenames
    IN  /\ (\E k \in 1 .. Len(fileNames) : fileNames[k] \notin lastResolution.readable)
             => lastResolution.raised
        /\ fileNames = <<>> => lastResolution.raised
        /\ lastResolution.raised <=> resolution = "aborted"
        /\ ~lastResolution.raised =>
             /\ Len(m_WeightMatrices) = Len(fileNames)
             /\ \A k \in 1 .. Len(fileNames) :
                  m_WeightMatrices[k] = ReaderOutput(fileNames[k])

\* BeforeEachResolution has completed normally for two different files.
C12_Witness ==
  /\ lastResolution.called /\ iterationsDone = 0
  /\ ~lastResolution.raised
  /\ Len(lastResolution.weightMatrixFilenames) = 2
  /\ lastResolution.weightMatrixFilenames[1] # lastResolution.weightMatrixFilenames[2]
  /\ Len(m_WeightMatrices) = 2

\* C13: every BeforeEachResolution resets the iteration counter to 0; each
\* AfterEachIteration adds one to it when the finite-difference derivative is
\* in use and leaves it otherwise, so that after n iterations of a resolution
\* it is n (in use) or 0 (not in use); with the derivative in use the
\* perturbation is Compute_c(0) at the start of a resolution and Compute_c(k)
\* after the k-th iteration.
C13_IterationCounterAndPerturbation ==
  lastResolution.called =>
    /\ m_CurrentIteration =
         IF m_UseFiniteDifferenceDerivative THEN iterationsDone ELSE 0
    /\ m_UseFiniteDifferenceDerivative =>
         m_FiniteDifferencePerturbation =
           Compute_c(iterationsDone, m_Param_c, m_Param_gamma)

\* Two iterations of a resolution that uses the finite-difference derivative
\* with SP_c 2.0 and SP_gamma 2.0: the perturbation is 2.0 / 3^2.
C13_Witness ==
  /\ lastResolution.called
  /\ m_UseFiniteDifferenceDerivative
  /\ iterationsDone = 2
  /\ m_CurrentIteration = 2
  /\ m_FiniteDifferencePerturbation = [numerator |-> 20, denominator |-> <<9, 1000>>]


\* =========================================================================
\*              Properties of elastix::MainBase::GetComponentDatabase
\* =========================================================================

\* C14: under concurrent first calls the component database is created and
\* LoadComponents is run exactly once, no caller gets a database whose
\* initialization is still going on, and every call gets the same object; a
\* failing LoadComponents is logged only, and the database is still returned.
C14_ComponentDatabaseInitializedOnce ==
  /\ Len(databases) <= 1
  /\ loadComponentsCalls <= 1
  /\ \A t \in Callers : \A k \in 1 .. Len(returned[t]) :
       /\ Len(databases) = 1 /\ loadComponentsCalls = 1
       /\ returned[t][k].database = 1
       /\ returned[t][k].state \in {"loaded", "failed"}
       /\ returned[t][k].state = "failed" <=> errorsLogged = 1
       /\ returned[t][k].state = databases[1]

\* One thread ran the initializer, whose LoadComponents failed, while every
\* other thread made its first call and waited; every thread has returned
\* from that call and from a later one.
C14_Witness ==
  /\ \A t \in Callers : Len(returned[t]) >= 2
  /\ \E t \in Callers :
       /\ returned[t][1].path = "initializer"
       /\ \A u \in Callers \ {t} : returned[u][1].path = "waited"
  /\ errorsLogged = 1


\* =========================================================================
\*                     Properties of itk::OpenCLContext
\* =========================================================================

IsTranslationBy(t, offset) ==
  \A index \in IndexRange(testImage.size) : TransformPoint(t, index) = VecAdd(index, offset)

\* The filter has run with the translation file as initial transform.
CombinedWithFile ==
  /\ transformixOutput # NotUpdated
  /\ initialTransformParametersFileName = TranslationFileName

IsScaleTransform(t) ==
  /\ t.class = "AffineTransform"
  /\ \E scale \in {2, 3} :
       \A index \in IndexRange(testImage.size) :
         TransformPoint(t, index) = [i \in 1 .. 2 |-> scale * index[i]]

SliceOf(wu) == (wu.Samples + 1) .. (wu.Samples + GetNumberOfPixels(wu.imageRegion))

\* C21: during MultiThreadedGenerateData no two work units write the same
\* element of the sample vector: the slices of two work units have no
\* element in common, a step of the callback of work unit i changes elements
\* of the slice of work unit i only and stores its sample inside that slice,
\* and a work unit changes only when its own callback returns, and then only
\* in its NumberOfSamples.
C21_WorkUnitsWriteOwnSliceOnly ==
  [][(pcMain = "executing" /\ pcMain' = "executing") =>
       /\ \A i, j \in 1 .. Len(workUnits) :
            i # j => SliceOf(workUnits[i]) \cap SliceOf(workUnits[j]) = {}
       /\ Len(samples') = Len(samples)
       /\ \A k \in 1 .. Len(samples) :
            samples'[k] # samples[k] =>
              \E id \in 0 .. (Len(workUnits) - 1) :
                /\ pcCallback[id] = "iterating" /\ iterPos'[id] = iterPos[id] + 1
                /\ k \in SliceOf(workUnits[id + 1])
       /\ \A id \in 0 .. (Len(workUnits) - 1) :
            samplesPtr'[id] # samplesPtr[id] /\ pcCallback[id] = "iterating" =>
              /\ samplesPtr'[id] = samplesPtr[id] + 1
              /\ samplesPtr[id] + 1 \in SliceOf(workUnits[id + 1])
              /\ samplesPtr[id] + 1 \in 1 .. Len(samples)
       /\ Len(workUnits') = Len(workUnits)
       /\ \A i \in 1 .. Len(workUnits) :
            workUnits'[i] # workUnits[i] =>
              /\ pcCallback[i - 1] = "iterating" /\ pcCallback'[i - 1] = "returned"
              /\ workUnits'[i] =
                   [workUnits[i] EXCEPT !.NumberOfSamples = workUnits'[i].NumberOfSamples]
    ]_vars

\* Two callbacks are in their loops at the same time and each of them has
\* stored a sample, with a mask.
C21_Witness ==
  /\ pcMain = "executing"
  /\ mask.present
  /\ \E id1, id2 \in 0 .. (Len(workUnits) - 1) :
       /\ id1 # id2
       /\ pcCallback[id1] = "iterating" /\ pcCallback[id2] = "iterating"
       /\ samplesPtr[id1] > workUnits[id1 + 1].Samples
       /\ samplesPtr[id2] > workUnits[id2 + 1].Samples


\* The position just after the slice of a work unit.
SliceEnd(wu) == wu.Samples + GetNumberOfPixels(wu.imageRegion)

\* C22: the work units of MultiThreadedGenerateData tile the work exactly:
\* their sub-regions are pairwise disjoint and together make up the cropped
\* input region; the first slice starts at the beginning of the sample
\* vector as it was resized, every next slice starts where the one before
\* ends, and the last slice ends at the end of that vector, whose length is
\* the number of pixels of the region; there are at most as many work units
\* as requested, also when more are requested than there are pixels.
C22_WorkUnitsTileRegionAndBuffer ==
  (useMultiThread /\ pcMain = "executing") =>
    /\ Len(workUnits) \in 1 .. Min(numberOfWorkUnits, globalMaxThreads)
    /\ \A i, j \in 1 .. Len(workUnits) :
         i # j => RegionIndices(workUnits[i].imageRegion)
                    \cap RegionIndices(workUnits[j].imageRegion) = {}
    /\ UNION { RegionIndices(workUnits[i].imageRegion) : i \in 1 .. Len(workUnits) }
         = RegionIndices(region)
    /\ \A i \in 1 .. Len(workUnits) : GetNumberOfPixels(workUnits[i].imageRegion) >= 1
    /\ workUnits[1].Samples = 0
    /\ \A i \in 1 .. (Len(workUnits) - 1) : workUnits[i + 1].Samples = SliceEnd(workUnits[i])
    /\ SliceEnd(workUnits[Len(workUnits)]) = Len(samples)
    /\ Len(samples) = GetNumberOfPixels(region)

\* More work units are requested than the region has pixels, and the region
\* of two pixels has been split into two work units.
C22_Witness ==
  /\ useMultiThread /\ pcMain = "executing"
  /\ numberOfWorkUnits > GetNumberOfPixels(region)
  /\ Len(workUnits) = 2
  /\ GetNumberOfPixels(region) = 2

====
